---- MODULE Spec2Model ----
(***************************************************************************)
(* A model of the DECODE IoT stream encoder: the stream/device registry    *)
(* (pkg/postgres), the MQTT subscription manager (pkg/mqtt), the RPC       *)
(* control surface (pkg/rpc), the moving average stores (pkg/pipeline,     *)
(* pkg/redis), the per-message pipeline (pkg/pipeline), the message        *)
(* handler of a broker connection (pkg/mqtt, pkg/rpc) and the supervisor   *)
(* that starts and stops the components (pkg/server).                      *)
(*                                                                         *)
(* Every RPC, every registry call and every manager call runs on its own   *)
(* goroutine; a goroutine is a member of Threads, pc[t] is its position    *)
(* and loc[t] its arguments and local variables.  A step of the model is   *)
(* one statement that touches shared state (one SQL statement, one map     *)
(* access under its lock, one request to the broker, one Redis command).   *)
(*                                                                         *)
(* The database is PostgreSQL at its default isolation level, READ         *)
(* COMMITTED: every statement sees what is committed when it runs plus     *)
(* the writes of its own transaction, a row written by an open             *)
(* transaction is locked against the writes of the others, and a blocked   *)
(* statement is an action that is not enabled.                             *)
(***************************************************************************)
EXTENDS Integers, Sequences, FiniteSets, TLC

VARIABLES
    devices,        \* committed rows of table devices
    streams,        \* committed rows of table streams
    devSeq,         \* sequence devices_id_seq: the next serial id
    rndSeq,         \* number of random values drawn (uuid.NewRandom)
    tx,             \* per goroutine: its transactor and the writes of its transaction
    pc,             \* per goroutine: its position
    loc,            \* per goroutine: arguments and local variables
    calls,          \* number of top-level calls started
    issued,         \* the (stream_uid, token) pairs CreateStream responses have carried
    clients,        \* mqtt client.clients: broker -> connection (0: no entry)
    subscriptions,  \* mqtt client.subscriptions: the topics recorded as subscribed
    conns,          \* the connections opened so far, with the topics the broker holds for each
    entries,        \* movingAverager.entries: key -> the samples kept for it
    zset,           \* the Redis sorted sets: key -> the members with their scores
    now,            \* the clock, in seconds
    store,          \* the MovingAverager the process was configured with
    hist,           \* the MovingAverage calls that have returned
    ev,             \* number of invocations and returns of MovingAverage so far
    pipe,           \* the goroutine of Processor.Process: its device, position and effects
    srv,            \* Server.Start and Server.Stop: the step reached, the steps begun and done
    hdl,            \* the client loop of one broker connection and the handler it runs
    xf              \* Processor.Process on one parsed message: the shared parsed device and the documents

vars == <<devices, streams, devSeq, rndSeq, tx, pc, loc, calls, issued,
          clients, subscriptions, conns, entries, zset, now, store, hist, ev, pipe,
          srv, hdl, xf>>

regVars == <<devices, streams, devSeq, rndSeq, tx>>
mqttVars == <<clients, subscriptions, conns>>
maVars == <<entries, zset, now, store, hist, ev>>
ctlVars == <<regVars, issued, mqttVars>>

---------------------------------------------------------------------------
(* Bounds of the model *)

MaxCalls == 3

Threads == {"g1", "g2"}
DeviceTokens == {"d1"}
Communities == {"c1", "c2"}
PublicKeys == {"pk1"}
Attrs == {"here", "there"}
Brokers == {"b1", "b2"}
Topics == {"d1", "d2"}
BrokerAddr == "b1"
MaxTime == 2
Values == {1, 3}
SensorIDs == {12}
Intervals == {1, 2}
MAStores == {"memory", "redis", "script"}
MaxMessages == 2
PipeCommunities == <<"c1", "c2", "c3">>
Payloads == {"nil", "bad", "ok"}
EncryptionPassword == "pw"

---------------------------------------------------------------------------
(* Registry: pkg/postgres *)

NoTx == [open |-> FALSE, finalised |-> FALSE, finalisedErr |-> "nil",
         devIns |-> {}, devUpd |-> {}, devDel |-> {}, strIns |-> {}, strDel |-> {}]

NoLoc == [op |-> "none", device_token |-> "", community_id |-> "", public_key |-> "",
          attrs |-> "", stream_uid |-> 0, token |-> 0, deviceID |-> 0,
          err |-> "nil", retDevice |-> "", broker |-> "", topic |-> "", client |-> 0,
          pending |-> {}, attempted |-> <<>>, failed |-> {}, req |-> <<>>]

\* pgp_sym_encrypt(:token, :encryption_password)
pgp_sym_encrypt(token, password) == [cipher |-> token, key |-> password]

\* pgp_sym_decrypt(token, :encryption_password): fails on another password
pgp_sym_decrypt(stored, password) ==
    IF stored.key = password THEN stored.cipher ELSE -1

\* a transaction that holds its locks: begun, and neither committed nor rolled back
TxLive(u) == tx[u].open /\ ~tx[u].finalised

Ids(rows) == {r.id : r \in rows}

\* some other open transaction has written (inserted, updated or deleted) the device row
DevLockedByOther(t, id) ==
    \E u \in Threads \ {t} :
        TxLive(u) /\ id \in Ids(tx[u].devIns \cup tx[u].devUpd \cup tx[u].devDel)

\* some other open transaction has inserted a device row with this token (devices_token_idx)
TokenInsertPending(t, token) ==
    \E u \in Threads \ {t} :
        TxLive(u) /\ \E d \in tx[u].devIns : d.device_token = token

\* the unique index of an earlier migration, on the uuid alone
streams_uuid_idx(s) == <<s.uuid>>

\* the unique index of streams after the last up migration
streams_device_id_community_id_idx(s) == <<s.device_id, s.community_id>>

\* the rows of an index key some other open transaction has inserted or deleted
StreamKeyPending(t, row) ==
    \E u \in Threads \ {t} :
        TxLive(u) /\ \E s \in tx[u].strIns \cup tx[u].strDel :
            streams_device_id_community_id_idx(s) = streams_device_id_community_id_idx(row)

\* the committed rows that collide with row on the unique index
UniqueViolation(row) ==
    \E s \in streams :
        streams_device_id_community_id_idx(s) = streams_device_id_community_id_idx(row)

\* a rollback that forgets to mark the transactor finalised
rollbackUnmarked(t) == [NoTx EXCEPT !.open = TRUE]

\* transactor.rollback: the writes are dropped, the transaction is finalised
rollback(t) ==
    IF tx[t].finalised THEN tx[t]
    ELSE [NoTx EXCEPT !.open = TRUE, !.finalised = TRUE]

\* tx.Commit applied to the committed tables
CommittedDevices(t) ==
    {d \in devices : d.id \notin Ids(tx[t].devUpd \cup tx[t].devDel)}
        \cup tx[t].devIns \cup tx[t].devUpd

\* a commit that drops the rows the transaction inserted
UncommittedStreams(t) == streams \ tx[t].strDel

CommittedStreams(t) == (streams \ tx[t].strDel) \cup tx[t].strIns

\* the goroutine moves to position p with its locals changed to l
Goto(t, p, l) ==
    /\ pc' = [pc EXCEPT ![t] = p]
    /\ loc' = [loc EXCEPT ![t] = l]

\* rpc CreateStream up to the BeginTX of DB.CreateStream: the request is valid,
\* createStream builds the Stream and its Device, the transaction begins
CreateStream_Begin(t, token, community, key, attrs) ==
    /\ pc[t] = "idle"
    /\ calls < MaxCalls
    /\ calls' = calls + 1
    /\ tx' = [tx EXCEPT ![t] = [NoTx EXCEPT !.open = TRUE]]
    /\ Goto(t, "cs_upsert", [NoLoc EXCEPT !.op = "CreateStream", !.device_token = token,
                                          !.community_id = community, !.public_key = key,
                                          !.attrs = attrs])
    /\ UNCHANGED <<maVars, pipe, srv, hdl, xf, devices, streams, devSeq, rndSeq, issued, mqttVars>>

\* INSERT INTO devices ... ON CONFLICT (device_token) DO UPDATE ... RETURNING id
CreateStream_Upsert(t) ==
    /\ pc[t] = "cs_upsert"
    /\ LET existing == {d \in devices : d.device_token = loc[t].device_token}
           row(id) == [id |-> id, device_token |-> loc[t].device_token, attrs |-> loc[t].attrs]
       IN  /\ ~TokenInsertPending(t, loc[t].device_token)
           /\ \A d \in existing : ~DevLockedByOther(t, d.id)
           /\ IF existing = {}
              THEN /\ tx' = [tx EXCEPT ![t].devIns = {row(devSeq)}]
                   /\ Goto(t, "cs_gen", [loc[t] EXCEPT !.deviceID = devSeq])
              ELSE LET d == CHOOSE d \in existing : TRUE
                   IN  /\ tx' = [tx EXCEPT ![t].devUpd = {row(d.id)}]
                       /\ Goto(t, "cs_gen", [loc[t] EXCEPT !.deviceID = d.id])
    /\ devSeq' = devSeq + 1
    /\ UNCHANGED <<maVars, pipe, srv, hdl, xf, devices, streams, rndSeq, calls, issued, mqttVars>>

\* uuid.NewRandom and GenerateToken both succeed
CreateStream_Generate(t) ==
    /\ pc[t] = "cs_gen"
    /\ rndSeq' = rndSeq + 1
    /\ Goto(t, "cs_insert", [loc[t] EXCEPT !.stream_uid = rndSeq + 1, !.token = rndSeq + 1])
    /\ UNCHANGED <<maVars, pipe, srv, hdl, xf, devices, streams, devSeq, tx, calls, issued, mqttVars>>

\* uuid.NewRandom fails: CreateStream returns without a rollback
CreateStream_UuidFail(t) ==
    /\ pc[t] = "cs_gen"
    /\ Goto(t, "defer", [loc[t] EXCEPT !.err = "failed to generate stream UUID"])
    /\ UNCHANGED <<maVars, pipe, srv, hdl, xf, regVars, calls, issued, mqttVars>>

\* GenerateToken fails: CreateStream returns without a rollback
CreateStream_TokenFail(t) ==
    /\ pc[t] = "cs_gen"
    /\ rndSeq' = rndSeq + 1
    /\ Goto(t, "defer", [loc[t] EXCEPT !.err = "failed to generate random token"])
    /\ UNCHANGED <<maVars, pipe, srv, hdl, xf, devices, streams, devSeq, tx, calls, issued, mqttVars>>

\* INSERT INTO streams ...: a unique violation rolls back
CreateStream_Insert(t) ==
    /\ pc[t] = "cs_insert"
    /\ LET row == [uuid |-> loc[t].stream_uid, device_id |-> loc[t].deviceID,
                   community_id |-> loc[t].community_id, public_key |-> loc[t].public_key,
                   token |-> pgp_sym_encrypt(loc[t].token, EncryptionPassword)]
       IN  /\ ~StreamKeyPending(t, row)
           /\ IF UniqueViolation(row)
              THEN /\ tx' = [tx EXCEPT ![t] = rollback(t)]
                   /\ Goto(t, "defer", [loc[t] EXCEPT !.stream_uid = 0, !.token = 0,
                          !.err = "device already registered within community"])
              ELSE /\ tx' = [tx EXCEPT ![t].strIns = {row}]
                   /\ Goto(t, "defer", loc[t])
    /\ UNCHANGED <<maVars, pipe, srv, hdl, xf, devices, streams, devSeq, rndSeq, calls, issued, mqttVars>>

\* the requests a caller of DeleteStream makes: a stream_uid with the token that
\* CreateStream returned for it, the same with another token, or an unknown stream_uid
DeleteRequests ==
    issued \cup {<<p[1], 0>> : p \in issued} \cup {<<0, p[2]>> : p \in issued}

\* a DELETE that looks at the uuid alone
StreamMatchesUuid(s, uid, token) == s.uuid = uid

\* WHERE uuid = :uuid AND pgp_sym_decrypt(token, :encryption_password) = :token
StreamMatches(s, uid, token) ==
    /\ s.uuid = uid
    /\ pgp_sym_decrypt(s.token, EncryptionPassword) = token

\* rpc DeleteStream up to the BeginTX of DB.DeleteStream
DeleteStream_Begin(t, uid, token) ==
    /\ pc[t] = "idle"
    /\ calls < MaxCalls
    /\ calls' = calls + 1
    /\ tx' = [tx EXCEPT ![t] = [NoTx EXCEPT !.open = TRUE]]
    /\ Goto(t, "ds_delete", [NoLoc EXCEPT !.op = "DeleteStream", !.stream_uid = uid,
                                          !.token = token])
    /\ UNCHANGED <<maVars, pipe, srv, hdl, xf, devices, streams, devSeq, rndSeq, issued, mqttVars>>

\* DELETE FROM streams WHERE uuid = :uuid AND pgp_sym_decrypt(token, ...) = :token
\* RETURNING device_id: no row is sql.ErrNoRows, and rolls back
DeleteStream_Delete(t) ==
    /\ pc[t] = "ds_delete"
    /\ LET match == {s \in streams : StreamMatches(s, loc[t].stream_uid, loc[t].token)}
       IN  /\ \A s \in match : \A u \in Threads \ {t} : ~(TxLive(u) /\ s \in tx[u].strDel)
           /\ IF match = {}
              THEN /\ tx' = [tx EXCEPT ![t] = rollback(t)]
                   /\ Goto(t, "defer", [loc[t] EXCEPT !.err = "failed to delete stream"])
              ELSE /\ tx' = [tx EXCEPT ![t].strDel = match]
                   /\ Goto(t, "ds_count",
                           [loc[t] EXCEPT !.deviceID = (CHOOSE s \in match : TRUE).device_id])
    /\ UNCHANGED <<maVars, pipe, srv, hdl, xf, devices, streams, devSeq, rndSeq, calls, issued, mqttVars>>

\* SELECT COUNT(*) FROM streams WHERE device_id = :device_id
StreamCount(t) ==
    Cardinality({s \in streams \ tx[t].strDel : s.device_id = loc[t].deviceID})

DeleteStream_Count(t) ==
    /\ pc[t] = "ds_count"
    /\ Goto(t, IF StreamCount(t) = 0 THEN "ds_deldev" ELSE "defer", loc[t])
    /\ UNCHANGED <<maVars, pipe, srv, hdl, xf, regVars, calls, issued, mqttVars>>

\* DELETE FROM devices WHERE id = :id RETURNING device_token; the foreign key
\* streams.device_id REFERENCES devices(id) refuses it while a stream refers to the row
DeleteStream_DeleteDevice(t) ==
    /\ pc[t] = "ds_deldev"
    /\ ~DevLockedByOther(t, loc[t].deviceID)
    /\ LET target == {d \in devices : d.id = loc[t].deviceID}
           refs == {s \in streams \ tx[t].strDel : s.device_id = loc[t].deviceID}
       IN  IF target = {} \/ refs # {}
           THEN /\ tx' = [tx EXCEPT ![t] = rollback(t)]
                /\ Goto(t, "defer", [loc[t] EXCEPT !.err = "failed to delete device"])
           ELSE /\ tx' = [tx EXCEPT ![t].devDel = target]
                /\ Goto(t, "defer",
                        [loc[t] EXCEPT !.retDevice = (CHOOSE d \in target : TRUE).device_token])
    /\ UNCHANGED <<maVars, pipe, srv, hdl, xf, devices, streams, devSeq, rndSeq, calls, issued, mqttVars>>

\* a statement fails (the connection is lost): transactor.Get or Exec rolls back
Statement_Fail(t) ==
    /\ pc[t] \in {"cs_upsert", "cs_insert", "ds_delete", "ds_count", "ds_deldev"}
    /\ tx' = [tx EXCEPT ![t] = rollback(t)]
    /\ Goto(t, "defer", [loc[t] EXCEPT !.stream_uid = 0, !.token = 0, !.err = "statement failed"])
    /\ UNCHANGED <<maVars, pipe, srv, hdl, xf, devices, streams, devSeq, rndSeq, calls, issued, mqttVars>>

\* rpc CreateStream after e.db.CreateStream returned l.err: an error is returned as
\* an internal error, otherwise e.mqtt.Subscribe(e.brokerAddr, req.DeviceToken, ...)
CreateStream_AfterDB(l) ==
    IF l.err # "nil"
    THEN <<"done", [l EXCEPT !.stream_uid = 0, !.token = 0]>>
    ELSE <<"sub_check", [l EXCEPT !.broker = BrokerAddr, !.topic = l.device_token]>>

\* rpc DeleteStream after e.db.DeleteStream returned l.err and l.retDevice:
\* e.mqtt.Unsubscribe(e.brokerAddr, device.DeviceToken) when a device came back
DeleteStream_AfterDB(l) ==
    IF l.err # "nil"
    THEN <<"done", [l EXCEPT !.retDevice = ""]>>
    ELSE IF l.retDevice = ""
         THEN <<"done", l>>
         ELSE <<"gc_check", [l EXCEPT !.broker = BrokerAddr, !.topic = l.retDevice]>>

\* the columns of a row that a SELECT names
Columns(row, cols) == [c \in cols |-> row[c]]

\* a SELECT of every column of streams
AllStreamColumns == {"uuid", "device_id", "community_id", "public_key", "token"}

\* GetDevice: SELECT community_id, public_key, operations FROM streams (the rows of
\* the model carry no operations)
GetDeviceStreamColumns == {"community_id", "public_key"}

\* GetDevices: SELECT id, device_token FROM devices
GetDevices == {Columns(d, {"id", "device_token"}) : d \in devices}

\* GetDevice: the device row with the token, then its streams; no row is an error
GetDevice(deviceToken) ==
    LET found == {d \in devices : d.device_token = deviceToken}
    IN  IF found = {}
        THEN [err |-> "failed to load device", device |-> <<>>]
        ELSE LET d == CHOOSE x \in found : TRUE
             IN  [err |-> "nil",
                  device |-> [id |-> d.id, device_token |-> d.device_token, attrs |-> d.attrs,
                              Streams |-> {Columns(r, GetDeviceStreamColumns) :
                                              r \in {x \in streams : x.device_id = d.id}}]]

\* the twirp error of an RPC that returns l.err: twirp.InternalErrorWith(err) for
\* every error of the registry and of the manager
ResponseCode(l) == IF l.err = "nil" THEN "ok" ELSE "internal"

\* what the caller of an RPC sees of an error: {code, msg}
Response(l) == [code |-> ResponseCode(l), msg |-> l.err]

\* the locals of the registry call are dead once it has returned
Returned(l) == [l EXCEPT !.community_id = "", !.public_key = "", !.attrs = "", !.deviceID = 0]

AfterDB(l) ==
    IF l.op = "CreateStream" THEN CreateStream_AfterDB(Returned(l))
    ELSE DeleteStream_AfterDB(Returned(l))

\* the deferred tx.CommitOrRollback: a finalised transaction is left alone, any
\* other is committed; then the registry call returns to the RPC
CommitOrRollback(t) ==
    /\ pc[t] = "defer"
    /\ IF tx[t].finalised
       THEN UNCHANGED <<devices, streams>>
       ELSE /\ devices' = CommittedDevices(t)
            /\ streams' = CommittedStreams(t)
    /\ tx' = [tx EXCEPT ![t] = NoTx]
    /\ Goto(t, AfterDB(loc[t])[1], AfterDB(loc[t])[2])
    /\ UNCHANGED <<maVars, pipe, srv, hdl, xf, devSeq, rndSeq, calls, issued, mqttVars>>

\* tx.Commit fails: nothing is written
Commit_Fail(t) ==
    /\ pc[t] = "defer"
    /\ ~tx[t].finalised
    /\ tx' = [tx EXCEPT ![t] = NoTx]
    /\ LET l == [loc[t] EXCEPT !.err = IF loc[t].err = "nil" THEN "commit failed" ELSE loc[t].err]
       IN  Goto(t, AfterDB(l)[1], AfterDB(l)[2])
    /\ UNCHANGED <<maVars, pipe, srv, hdl, xf, devices, streams, devSeq, rndSeq, calls, issued, mqttVars>>

---------------------------------------------------------------------------
(* SubscriptionManager: pkg/mqtt *)

\* Subscribe without the record of subscriptions, as in the first client
NeverSubscribedAlready(topic) == FALSE

\* Subscribe: _, ok := c.subscriptions[topic]
SubscribedAlready(topic) == topic \in subscriptions

\* the topics the broker holds for the connections to a broker
ActiveSubscriptions(broker, topic) ==
    {i \in 1..Len(conns) :
        conns[i].open /\ conns[i].broker = broker /\ topic \in conns[i].topics}

\* where the caller of getClient goes on with its client
AfterGetClient(t) ==
    IF loc[t].op \in {"CreateStream", "Subscribe", "Start"} THEN "sub_broker" ELSE "unsub_broker"

\* client.Subscribe called directly
Subscribe_Begin(t, broker, topic) ==
    /\ pc[t] = "idle"
    /\ calls < MaxCalls
    /\ calls' = calls + 1
    /\ Goto(t, "sub_check", [NoLoc EXCEPT !.op = "Subscribe", !.broker = broker, !.topic = topic])
    /\ UNCHANGED <<maVars, pipe, srv, hdl, xf, regVars, issued, mqttVars>>

\* client.Unsubscribe called directly
Unsubscribe_Begin(t, broker, topic) ==
    /\ pc[t] = "idle"
    /\ calls < MaxCalls
    /\ calls' = calls + 1
    /\ Goto(t, "gc_check", [NoLoc EXCEPT !.op = "Unsubscribe", !.broker = broker, !.topic = topic])
    /\ UNCHANGED <<maVars, pipe, srv, hdl, xf, regVars, issued, mqttVars>>

\* Subscribe: the read of c.subscriptions under subscriptionsMu.RLock
Subscribe_Check(t) ==
    /\ pc[t] = "sub_check"
    /\ Goto(t, IF SubscribedAlready(loc[t].topic) THEN "done" ELSE "gc_check", loc[t])
    /\ UNCHANGED <<maVars, pipe, srv, hdl, xf, regVars, calls, issued, mqttVars>>

\* getClient: the read of c.clients under clientsMu.RLock
getClient_Lookup(t) ==
    /\ pc[t] = "gc_check"
    /\ IF clients[loc[t].broker] # 0
       THEN Goto(t, AfterGetClient(t), [loc[t] EXCEPT !.client = clients[loc[t].broker]])
       ELSE Goto(t, "gc_connect", loc[t])
    /\ UNCHANGED <<maVars, pipe, srv, hdl, xf, regVars, calls, issued, mqttVars>>

\* getClient: connector.Connect, then the write of c.clients under clientsMu.Lock
getClient_Connect(t) ==
    /\ pc[t] = "gc_connect"
    /\ conns' = Append(conns, [broker |-> loc[t].broker, topics |-> {}, open |-> TRUE])
    /\ clients' = [clients EXCEPT ![loc[t].broker] = Len(conns) + 1]
    /\ Goto(t, AfterGetClient(t), [loc[t] EXCEPT !.client = Len(conns) + 1])
    /\ UNCHANGED <<maVars, pipe, srv, hdl, xf, regVars, calls, issued, subscriptions>>

\* connector.Connect fails
Connect_Fail(t) ==
    /\ pc[t] = "gc_connect"
    /\ Goto(t, "done", [loc[t] EXCEPT !.err = "failed to get client"])
    /\ UNCHANGED <<maVars, pipe, srv, hdl, xf, regVars, calls, issued, mqttVars>>

\* Subscribe: client.Subscribe(topic, 0, handler) reaches the broker
Subscribe_Broker(t) ==
    /\ pc[t] = "sub_broker"
    /\ conns' = [conns EXCEPT ![loc[t].client].topics = @ \cup {loc[t].topic}]
    /\ Goto(t, "sub_record", loc[t])
    /\ UNCHANGED <<maVars, pipe, srv, hdl, xf, regVars, calls, issued, clients, subscriptions>>

\* Subscribe: c.subscriptions[topic] = true under subscriptionsMu.Lock
Subscribe_Record(t) ==
    /\ pc[t] = "sub_record"
    /\ subscriptions' = subscriptions \cup {loc[t].topic}
    /\ Goto(t, "done", loc[t])
    /\ UNCHANGED <<maVars, pipe, srv, hdl, xf, regVars, calls, issued, clients, conns>>

\* Unsubscribe: client.Unsubscribe(topic) reaches the broker
Unsubscribe_Broker(t) ==
    /\ pc[t] = "unsub_broker"
    /\ conns' = [conns EXCEPT ![loc[t].client].topics = @ \ {loc[t].topic}]
    /\ Goto(t, "unsub_record", loc[t])
    /\ UNCHANGED <<maVars, pipe, srv, hdl, xf, regVars, calls, issued, clients, subscriptions>>

\* Unsubscribe: delete(c.subscriptions, topic) under subscriptionsMu.Lock
Unsubscribe_Record(t) ==
    /\ pc[t] = "unsub_record"
    /\ subscriptions' = subscriptions \ {loc[t].topic}
    /\ Goto(t, "done", loc[t])
    /\ UNCHANGED <<maVars, pipe, srv, hdl, xf, regVars, calls, issued, clients, conns>>

\* the token of client.Subscribe or client.Unsubscribe carries an error
Broker_Fail(t) ==
    /\ pc[t] \in {"sub_broker", "unsub_broker"}
    /\ Goto(t, "done", [loc[t] EXCEPT !.err = "broker request failed"])
    /\ UNCHANGED <<maVars, pipe, srv, hdl, xf, regVars, calls, issued, mqttVars>>

---------------------------------------------------------------------------
(* ControlService: pkg/rpc *)

\* the call returns to its caller
Return(t) ==
    /\ pc[t] = "done"
    /\ loc[t].op # "Start"
    /\ issued' = IF loc[t].op = "CreateStream" /\ loc[t].err = "nil"
                 THEN issued \cup {<<loc[t].stream_uid, loc[t].token>>}
                 ELSE issued
    /\ Goto(t, "idle", NoLoc)
    /\ UNCHANGED <<maVars, pipe, srv, hdl, xf, regVars, calls, mqttVars>>

\* CreateStreamRequest: a string is "" when unset, Location is <<>> when nil
CreateStreamRequest(deviceToken, policyId, recipientPublicKey, location, operations) ==
    [DeviceToken |-> deviceToken, PolicyId |-> policyId,
     RecipientPublicKey |-> recipientPublicKey, Location |-> location,
     Operations |-> operations]

Location(longitude, latitude) == <<[Longitude |-> longitude, Latitude |-> latitude]>>

\* CreateStreamRequest_Operation
RequestOperation(sensorId, action, bins, interval) ==
    [SensorId |-> sensorId, Action |-> action, Bins |-> bins, Interval |-> interval]

\* the requests a caller may send
RequestLocations ==
    {<<>>} \cup {Location(lo, la) : lo \in {0, 200, 10}, la \in {0, -100, 10}}

RequestOperations ==
    { <<>>,
      <<RequestOperation(12, "SHARE", <<>>, 0)>>,
      <<RequestOperation(0, "SHARE", <<>>, 0)>>,
      <<RequestOperation(12, "BIN", <<>>, 0)>>,
      <<RequestOperation(12, "MOVING_AVG", <<>>, 0)>>,
      <<RequestOperation(12, "SHARE", <<>>, 0), RequestOperation(12, "BIN", <<>>, 0)>>,
      <<RequestOperation(12, "BIN", <<>>, 0), RequestOperation(12, "MOVING_AVG", <<>>, 0)>>,
      <<RequestOperation(12, "MOVING_AVG", <<>>, 0), RequestOperation(0, "BIN", <<>>, 0)>>,
      <<RequestOperation(12, "BIN", <<1, 2>>, 0), RequestOperation(12, "3", <<>>, 0)>> }

CreateStreamRequests ==
    {CreateStreamRequest(d, c, k, l, o) :
        d \in {"", "d1"}, c \in {"", "c1"}, k \in {"", "pk1"},
        l \in RequestLocations, o \in RequestOperations}

\* twirp.RequiredArgumentError and twirp.InvalidArgumentError: the message
RequiredArgumentError(argument) == argument \o " is required"
InvalidArgumentError(argument, validationMsg) == argument \o " " \o validationMsg

\* a validation that looks at the latitude before the longitude
validateCreateRequestLatitudeFirst(req) ==
    CASE req.DeviceToken = "" -> RequiredArgumentError("device_token")
      [] req.PolicyId = "" -> RequiredArgumentError("policy_id")
      [] req.RecipientPublicKey = "" -> RequiredArgumentError("recipient_public_key")
      [] req.Location = <<>> -> RequiredArgumentError("location")
      [] OTHER ->
           LET location == req.Location[1]
           IN  CASE location.Latitude = 0 -> RequiredArgumentError("latitude")
                 [] location.Latitude < -90 \/ location.Latitude > 90 ->
                        InvalidArgumentError("latitude", "must be between -90 and 90")
                 [] location.Longitude = 0 -> RequiredArgumentError("longitude")
                 [] location.Longitude < -180 \/ location.Longitude > 180 ->
                        InvalidArgumentError("longitude", "must be between -180 and 180")
                 [] OTHER -> "nil"

\* validateCreateRequest: the first test that fails returns
validateCreateRequest(req) ==
    IF req.DeviceToken = "" THEN RequiredArgumentError("device_token")
    ELSE IF req.PolicyId = "" THEN RequiredArgumentError("policy_id")
    ELSE IF req.RecipientPublicKey = "" THEN RequiredArgumentError("recipient_public_key")
    ELSE IF req.Location = <<>> THEN RequiredArgumentError("location")
    ELSE IF req.Location[1].Longitude = 0 THEN RequiredArgumentError("longitude")
    ELSE IF req.Location[1].Longitude < -180 \/ req.Location[1].Longitude > 180
         THEN InvalidArgumentError("longitude", "must be between -180 and 180")
    ELSE IF req.Location[1].Latitude = 0 THEN RequiredArgumentError("latitude")
    ELSE IF req.Location[1].Latitude < -90 \/ req.Location[1].Latitude > 90
         THEN InvalidArgumentError("latitude", "must be between -90 and 90")
    ELSE "nil"

\* createOperation: the error, "nil" when the operation is built
createOperation(op) ==
    IF op.SensorId = 0 THEN InvalidArgumentError("operations", "require a non-zero sensor id")
    ELSE CASE op.Action = "SHARE" -> "nil"
           [] op.Action = "BIN" ->
                  IF Len(op.Bins) = 0
                  THEN InvalidArgumentError("operations",
                                            "binning requires a non-empty list of bins")
                  ELSE "nil"
           [] op.Action = "MOVING_AVG" ->
                  IF op.Interval = 0
                  THEN InvalidArgumentError("operations",
                                            "moving average requires a non-zero interval")
                  ELSE "nil"
           [] OTHER -> InvalidArgumentError("operations", "foo")

\* createStream: the loop over req.Operations returns at the first error
RECURSIVE createStream(_)
createStream(operations) ==
    IF operations = <<>> THEN "nil"
    ELSE LET err == createOperation(Head(operations))
         IN  IF err # "nil" THEN err ELSE createStream(Tail(operations))

\* rpc CreateStream up to e.db.CreateStream
RequestError(req) ==
    LET err == validateCreateRequest(req)
    IN  IF err # "nil" THEN err ELSE createStream(req.Operations)

\* rpc CreateStream called with a request: an invalid one is answered with its
\* error, a valid one goes on to the registry
CreateStream_Validate(t, req) ==
    IF RequestError(req) = "nil"
    THEN CreateStream_Begin(t, req.DeviceToken, req.PolicyId, req.RecipientPublicKey, "here")
    ELSE /\ pc[t] = "idle"
         /\ calls < MaxCalls
         /\ calls' = calls + 1
         /\ Goto(t, "done", [NoLoc EXCEPT !.op = "CreateStream", !.req = <<req>>,
                                          !.err = RequestError(req)])
         /\ UNCHANGED <<maVars, pipe, srv, hdl, xf, regVars, issued, mqttVars>>

\* Start that gives up at the first Subscribe that fails
Start_AbortOnError(l) ==
    IF l.err # "nil" THEN <<"started", l>> ELSE <<"start_loop", l>>

\* Start after e.mqtt.Subscribe returned l.err: an error is logged, and the loop
\* goes on
Start_AfterSubscribe(l) ==
    <<"start_loop", [l EXCEPT !.err = "nil", !.topic = "", !.client = 0,
                              !.failed = IF l.err # "nil" THEN @ \cup {l.topic} ELSE @]>>

\* encoderImpl.Start, once, before any RPC is served: e.db.GetDevices()
Start_Begin(t) ==
    /\ \A u \in Threads : pc[u] = "idle"
    /\ calls = 0
    /\ calls' = calls + 1
    /\ Goto(t, "start_loop", [NoLoc EXCEPT !.op = "Start", !.broker = BrokerAddr,
                                           !.pending = {d.device_token : d \in GetDevices}])
    /\ UNCHANGED <<maVars, pipe, srv, hdl, xf, regVars, issued, mqttVars>>

\* e.db.GetDevices() fails: Start returns the error
Start_GetDevicesFail(t) ==
    /\ \A u \in Threads : pc[u] = "idle"
    /\ calls = 0
    /\ calls' = calls + 1
    /\ Goto(t, "started", [NoLoc EXCEPT !.op = "Start", !.err = "failed to load devices"])
    /\ UNCHANGED <<maVars, pipe, srv, hdl, xf, regVars, issued, mqttVars>>

\* for _, d := range devices: e.mqtt.Subscribe(e.brokerAddr, d.DeviceToken, ...), in
\* the order the rows came back; return nil after the last
Start_Next(t) ==
    /\ pc[t] = "start_loop"
    /\ IF loc[t].pending = {}
       THEN Goto(t, "started", loc[t])
       ELSE \E token \in loc[t].pending :
               Goto(t, "sub_check", [loc[t] EXCEPT !.topic = token,
                                                   !.pending = @ \ {token},
                                                   !.attempted = Append(@, token)])
    /\ UNCHANGED <<maVars, pipe, srv, hdl, xf, regVars, calls, issued, mqttVars>>

\* the Subscribe of the loop has returned
Start_Subscribed(t) ==
    /\ pc[t] = "done"
    /\ loc[t].op = "Start"
    /\ Goto(t, Start_AfterSubscribe(loc[t])[1], Start_AfterSubscribe(loc[t])[2])
    /\ UNCHANGED <<maVars, pipe, srv, hdl, xf, regVars, calls, issued, mqttVars>>

---------------------------------------------------------------------------
(* Moving averages: pkg/pipeline/moving_averager.go and pkg/redis *)

\* BuildKey: fmt.Sprintf("%s:%v:%v", deviceToken, sensorID, interval)
BuildKey(deviceToken, sensorID, interval) == <<deviceToken, sensorID, interval>>

MAKeys == {BuildKey(d, s, i) : d \in DeviceTokens, s \in SensorIDs, i \in Intervals}

\* the locals of one MovingAverage call
MALoc(value, key, inv) ==
    [op |-> "MovingAverage", value |-> value, key |-> key, now |-> now,
     previousTime |-> now - key[3], ok |-> FALSE, entries |-> <<>>, vals |-> {},
     mean |-> <<0, 1>>, err |-> "nil", inv |-> inv]

entry(timestamp, value) == [Timestamp |-> timestamp, Value |-> value]

RECURSIVE Accumulate(_)
Accumulate(es) == IF es = <<>> THEN 0 ELSE Head(es).Value + Accumulate(Tail(es))

\* the loop of MovingAverage with e.Timestamp <= previousTime as its test: the
\* sample at the edge of the window is dropped
AveragedExclusive(ok, es, value, timestamp, previousTime) ==
    IF ~ok
    THEN [entries |-> <<entry(timestamp, value)>>, mean |-> <<value, 1>>]
    ELSE LET newEntries == SelectSeq(es, LAMBDA e : e.Timestamp > previousTime)
         IN  [entries |-> Append(newEntries, entry(timestamp, value)),
              mean |-> <<Accumulate(newEntries) + value, Len(newEntries) + 1>>]

\* moving_averager.go from the test of ok on: the new slice for the key and
\* the mean, a pair <<accumulator, counter>> standing for their quotient
Averaged(ok, es, value, timestamp, previousTime) ==
    IF ~ok
    THEN [entries |-> <<entry(timestamp, value)>>, mean |-> <<value, 1>>]
    ELSE LET newEntries == SelectSeq(es, LAMBDA e : ~(e.Timestamp < previousTime))
         IN  [entries |-> Append(newEntries, entry(timestamp, value)),
              mean |-> <<Accumulate(newEntries) + value, Len(newEntries) + 1>>]

\* the member of the sorted set: fmt.Sprintf("%v:%v", value, now.Unix()), and
\* in the script version the msgpack encoding of Member{Timestamp, Value}
Member(value, timestamp) == <<value, timestamp>>

\* strings.Split(val, ":") and strconv.ParseFloat(parts[0], 64)
MemberValue(member) == member[1]

\* the commands of Redis on one sorted set, a set of members with their scores
ZAdd(zs, score, member) ==
    {z \in zs : z.member # member} \cup {[member |-> member, score |-> score]}

ZRangeByScore(zs, min, max) == {z.member : z \in {y \in zs : min <= y.score /\ y.score <= max}}

ZRemRangeByScore(zs, max) == {z \in zs : ~(z.score <= max)}

RECURSIVE SumValues(_)
SumValues(vals) ==
    IF vals = {} THEN 0
    ELSE LET v == CHOOSE x \in vals : TRUE IN MemberValue(v) + SumValues(vals \ {v})

CalculateAverage(vals) ==
    IF vals = {} THEN <<0, 1>> ELSE <<SumValues(vals), Cardinality(vals)>>

\* the script of the later version, run by Redis as one command
Script(zs, current_time, previous_time, member) ==
    LET added == ZAdd(zs, current_time, member)
        values == ZRangeByScore(added, previous_time, current_time)
    IN  [zset |-> ZRemRangeByScore(added, previous_time),
         mean |-> <<SumValues(values), Cardinality(values)>>]

MovingAverage_Begin(t, value, key) ==
    /\ pc[t] = "idle"
    /\ calls < MaxCalls
    /\ calls' = calls + 1
    /\ ev' = ev + 1
    /\ Goto(t, CASE store = "memory" -> "ma_read"
                 [] store = "redis" -> "r_zadd"
                 [] OTHER -> "s_eval",
            MALoc(value, key, ev + 1))
    /\ UNCHANGED <<ctlVars, pipe, srv, hdl, xf, entries, zset, now, store, hist>>

\* a map that keeps one slice for all its keys
SetEntriesOfAllKeys(m, key, es) == [k \in MAKeys |-> es]

\* m.entries[key] = es
SetEntries(m, key, es) == [k \in DOMAIN m \cup {key} |-> IF k = key THEN es ELSE m[k]]

\* m.RLock(); entries, ok := m.entries[key]; m.RUnlock()
Memory_Read(t) ==
    /\ pc[t] = "ma_read"
    /\ LET l == loc[t]
           ok == l.key \in DOMAIN entries
       IN  Goto(t, "ma_write", [l EXCEPT !.ok = ok,
                                         !.entries = IF ok THEN entries[l.key] ELSE <<>>])
    /\ UNCHANGED <<ctlVars, pipe, srv, hdl, maVars, calls, xf>>

\* m.Lock(); m.entries[key] = ...; m.Unlock()
Memory_Write(t) ==
    /\ pc[t] = "ma_write"
    /\ LET l == loc[t]
           a == Averaged(l.ok, l.entries, l.value, l.now, l.previousTime)
       IN  /\ entries' = SetEntries(entries, l.key, a.entries)
           /\ Goto(t, "ma_done", [l EXCEPT !.mean = a.mean])
    /\ UNCHANGED <<ctlVars, pipe, srv, hdl, zset, now, store, hist, ev, calls, xf>>

Redis_ZAdd(t) ==
    /\ pc[t] = "r_zadd"
    /\ LET l == loc[t]
       IN  zset' = [zset EXCEPT ![l.key] = ZAdd(@, l.now, Member(l.value, l.now))]
    /\ Goto(t, "r_range", loc[t])
    /\ UNCHANGED <<ctlVars, pipe, srv, hdl, entries, now, store, hist, ev, calls, xf>>

Redis_ZRangeByScore(t) ==
    /\ pc[t] = "r_range"
    /\ LET l == loc[t]
       IN  Goto(t, "r_rem", [l EXCEPT !.vals = ZRangeByScore(zset[l.key], l.previousTime, l.now)])
    /\ UNCHANGED <<ctlVars, pipe, srv, hdl, maVars, calls, xf>>

Redis_ZRemRangeByScore(t) ==
    /\ pc[t] = "r_rem"
    /\ LET l == loc[t]
       IN  /\ zset' = [zset EXCEPT ![l.key] = ZRemRangeByScore(@, l.previousTime)]
           /\ Goto(t, "ma_done", [l EXCEPT !.mean = CalculateAverage(l.vals)])
    /\ UNCHANGED <<ctlVars, pipe, srv, hdl, entries, now, store, hist, ev, calls, xf>>

\* r.client.Eval(script, []string{key}, now.Unix(), previousTime.Unix(), b)
Script_Eval(t) ==
    /\ pc[t] = "s_eval"
    /\ LET l == loc[t]
           r == Script(zset[l.key], l.now, l.previousTime, Member(l.value, l.now))
       IN  /\ zset' = [zset EXCEPT ![l.key] = r.zset]
           /\ Goto(t, "ma_done", [l EXCEPT !.mean = r.mean])
    /\ UNCHANGED <<ctlVars, pipe, srv, hdl, entries, now, store, hist, ev, calls, xf>>

MovingAverage_Return(t) ==
    /\ pc[t] = "ma_done"
    /\ LET l == loc[t]
       IN  hist' = Append(hist, [key |-> l.key, value |-> l.value, now |-> l.now,
                                 mean |-> l.mean, inv |-> l.inv, res |-> ev + 1])
    /\ ev' = ev + 1
    /\ Goto(t, "idle", NoLoc)
    /\ UNCHANGED <<ctlVars, pipe, srv, hdl, entries, zset, now, store, calls, xf>>

\* the clock advances by one second
Tick ==
    /\ now < MaxTime
    /\ now' = now + 1
    /\ UNCHANGED <<ctlVars, pipe, srv, hdl, entries, zset, store, hist, ev, pc, loc, calls, xf>>

---------------------------------------------------------------------------
(* The per-message pipeline: Processor.Process *)

NoPipe == [stage |-> "idle", streams |-> <<>>, idx |-> 0, outcome |-> <<>>, err |-> "nil",
           msgs |-> 0, written |-> <<>>]

\* the device the message handler read from the registry, with n streams
PipeDevice(n) == [NoPipe EXCEPT !.streams = SubSeq(PipeCommunities, 1, n)]

\* Process up to the loop: the payload is checked and parsed
Process_Called(p, payload) ==
    [p EXCEPT !.msgs = @ + 1,
              !.outcome = [i \in 1..Len(p.streams) |-> "none"],
              !.idx = 1,
              !.err = CASE payload = "nil" -> "empty payload received"
                        [] payload = "bad" -> "failed to parse SmartCitizen data"
                        [] OTHER -> "nil",
              !.stage = IF payload # "ok" \/ p.streams = <<>>
                        THEN "returned" ELSE "transform"]

\* Process is called with the next message of the device
Process_Begin(payload) ==
    /\ pipe.stage = "idle"
    /\ pipe.msgs < MaxMessages
    /\ pipe' = Process_Called(pipe, payload)
    /\ UNCHANGED <<ctlVars, maVars, srv, hdl, pc, loc, calls, xf>>

\* payloadBytes, err := p.processDevice(parsedDevice, stream)
Process_Transform ==
    /\ pipe.stage = "transform"
    /\ pipe' = [pipe EXCEPT !.stage = "encrypt"]
    /\ UNCHANGED <<ctlVars, maVars, srv, hdl, pc, loc, calls, xf>>

Transform_Fail ==
    /\ pipe.stage = "transform"
    /\ pipe' = [pipe EXCEPT !.stage = "returned", !.err = "failed to process device",
                            !.outcome[pipe.idx] = "transform failed"]
    /\ UNCHANGED <<ctlVars, maVars, srv, hdl, pc, loc, calls, xf>>

\* encodedPayload, err := zenroom.Exec(script, ...)
Process_Encrypt ==
    /\ pipe.stage = "encrypt"
    /\ pipe' = [pipe EXCEPT !.stage = "write"]
    /\ UNCHANGED <<ctlVars, maVars, srv, hdl, pc, loc, calls, xf>>

Zenroom_Fail ==
    /\ pipe.stage = "encrypt"
    /\ pipe' = [pipe EXCEPT !.stage = "returned", !.err = "zenroom failed",
                            !.outcome[pipe.idx] = "encrypt failed"]
    /\ UNCHANGED <<ctlVars, maVars, srv, hdl, pc, loc, calls, xf>>

\* p.datastore.WriteData(...), then the next stream of the loop
Process_Write ==
    /\ pipe.stage = "write"
    /\ pipe' = [pipe EXCEPT
                  !.written = Append(@, <<pipe.msgs, pipe.streams[pipe.idx]>>),
                  !.outcome[pipe.idx] = "written",
                  !.idx = @ + 1,
                  !.stage = IF pipe.idx = Len(pipe.streams) THEN "returned" ELSE "transform"]
    /\ UNCHANGED <<ctlVars, maVars, srv, hdl, pc, loc, calls, xf>>

Datastore_Fail ==
    /\ pipe.stage = "write"
    /\ pipe' = [pipe EXCEPT !.stage = "returned", !.err = "datastore failed",
                            !.outcome[pipe.idx] = "write failed"]
    /\ UNCHANGED <<ctlVars, maVars, srv, hdl, pc, loc, calls, xf>>

\* the handler that called Process takes the next message
Process_Return ==
    /\ pipe.stage = "returned"
    /\ pipe' = [pipe EXCEPT !.stage = "idle", !.idx = 0, !.outcome = <<>>, !.err = "nil"]
    /\ UNCHANGED <<ctlVars, maVars, srv, hdl, pc, loc, calls, xf>>

---------------------------------------------------------------------------
(* The transformation of one message: ParseData, processDevice, BinValue *)

\* A float64 of the pipeline is an exact fraction <<n, d>> in lowest terms, so
\* that equal values are equal pairs; rounding is not modelled.
RECURSIVE GCD(_, _)
GCD(a, b) == IF b = 0 THEN a ELSE GCD(b, a % b)

Fraction(n, d) == LET g == GCD(n, d) IN <<n \div g, d \div g>>

FloatFrom(n) == <<n, 1>>
FloatAdd(a, b) == Fraction(a[1] * b[2] + b[1] * a[2], a[2] * b[2])
FloatDiv(a, k) == Fraction(a[1], a[2] * k)
FloatLess(a, b) == a[1] * b[2] < b[1] * a[2]

\* RawSensor{ID, Value}: the value of the JSON text is <<>> for null and <<v>>
\* for the number v
RawSensor(id, value) == [id |-> id, value |-> value]

\* the "sensors" arrays of data[0] in the messages a device publishes
RawPayloads ==
    { <<RawSensor(12, <<1>>)>>,
      <<RawSensor(12, <<>>)>>,
      <<RawSensor(12, <<2>>), RawSensor(13, <<1>>)>>,
      <<RawSensor(13, <<1>>), RawSensor(12, <<2>>)>>,
      <<RawSensor(99, <<1>>), RawSensor(12, <<3>>)>> }

\* the ids of sensors.json
sensorMetadata == {12, 13}

\* json.Unmarshal into the float64 field Value: null leaves the zero value
UnmarshalValue(value) == IF value = <<>> THEN 0 ELSE value[1]

\* Sensor: a pointer field is <<>> when nil, an omitted slice is <<>>
Sensor(id, action, value, bins, values, interval) ==
    [ID |-> id, Action |-> action, Value |-> value, Bins |-> bins, Values |-> values,
     Interval |-> interval]

\* the loop of ParseData over data.Sensors
RECURSIVE ParseData(_)
ParseData(sensors) ==
    IF sensors = <<>> THEN <<>>
    ELSE LET rawSensor == Head(sensors)
         IN  IF rawSensor.id \notin sensorMetadata
             THEN ParseData(Tail(sensors))
             ELSE <<Sensor(rawSensor.id, "SHARE",
                           <<FloatFrom(UnmarshalValue(rawSensor.value))>>, <<>>, <<>>, <<>>)>>
                  \o ParseData(Tail(sensors))

\* Device.FindSensor: the index of the first sensor with the id, 0 for nil
FindSensor(sensors, id) ==
    LET found == {i \in 1..Len(sensors) : sensors[i].ID = id}
    IN  IF found = {} THEN 0 ELSE CHOOSE i \in found : \A j \in found : i <= j

\* postgres.Operation
Operation(sensorID, action, bins, interval) ==
    [SensorID |-> sensorID, Action |-> action, Bins |-> bins, Interval |-> interval]

\* the operations a stream may declare
StreamOperations ==
    { <<>>,
      <<Operation(12, "SHARE", <<>>, 0)>>,
      <<Operation(12, "BIN", <<1, 2>>, 0)>>,
      <<Operation(12, "MOVING_AVG", <<>>, 2)>>,
      <<Operation(13, "SHARE", <<>>, 0), Operation(12, "SHARE", <<>>, 0)>>,
      <<Operation(12, "MOVING_AVG", <<>>, 2), Operation(13, "BIN", <<1, 2>>, 0)>>,
      <<Operation(13, "SHARE", <<>>, 0)>> }

\* the indexes of the loop of BinValue whose test holds
Classified(value, bins) ==
    {i \in 1..Len(bins) :
        IF i = 1 THEN FloatLess(value, FloatFrom(bins[i]))
        ELSE FloatLess(value, FloatFrom(bins[i])) /\ ~FloatLess(value, FloatFrom(bins[i - 1]))}

\* a vector with its 1 at index hit (from 1)
OneHot(n, hit) == [i \in 1..n |-> IF i = hit THEN 1 ELSE 0]

\* a binning that puts a value on a boundary into the bin below it
BinValueLowerBin(value, bins) ==
    LET below == {i \in 1..Len(bins) : ~FloatLess(FloatFrom(bins[i]), value)}
    IN  OneHot(Len(bins) + 1,
               IF below = {} THEN Len(bins) + 1 ELSE CHOOSE i \in below : \A j \in below : i <= j)

\* BinValue: the loop breaks at the first index classified, else the last bin
BinValue(value, bins) ==
    LET c == Classified(value, bins)
    IN  OneHot(Len(bins) + 1,
               IF c = {} THEN Len(bins) + 1 ELSE CHOOSE i \in c : \A j \in c : i <= j)


RECURSIVE FloatSum(_)
FloatSum(vals) ==
    IF vals = <<>> THEN FloatFrom(0) ELSE FloatAdd(Head(vals), FloatSum(Tail(vals)))

RECURSIVE SumMembers(_)
SumMembers(vals) ==
    IF vals = {} THEN FloatFrom(0)
    ELSE LET v == CHOOSE x \in vals : TRUE IN FloatAdd(MemberValue(v), SumMembers(vals \ {v}))

\* movingAverager.MovingAverage called by the one goroutine that uses the store
MovingAverageInMemory(m, value, key, timestamp) ==
    LET previousTime == timestamp - key[3]
    IN  IF key \notin DOMAIN m
        THEN [entries |-> SetEntries(m, key, <<entry(timestamp, value)>>), mean |-> value]
        ELSE LET newEntries == SelectSeq(m[key], LAMBDA e : ~(e.Timestamp < previousTime))
                 counter == Len(newEntries) + 1
                 accumulator ==
                     FloatAdd(FloatSum([i \in 1..Len(newEntries) |-> newEntries[i].Value]), value)
             IN  [entries |-> SetEntries(m, key, Append(newEntries, entry(timestamp, value))),
                  mean |-> FloatDiv(accumulator, counter)]

\* Redis.MovingAverage called by the one goroutine that uses the store: ZADD,
\* ZRANGEBYSCORE, ZREMRANGEBYSCORE and CalculateAverage
MovingAverageInRedis(zs, value, key, timestamp) ==
    LET previousTime == timestamp - key[3]
        added == ZAdd(zs[key], timestamp, Member(value, timestamp))
        vals == ZRangeByScore(added, previousTime, timestamp)
    IN  [zset |-> [zs EXCEPT ![key] = ZRemRangeByScore(added, previousTime)],
         mean |-> IF vals = {} THEN FloatFrom(0)
                  ELSE FloatDiv(SumMembers(vals), Cardinality(vals))]

\* p.movingAvg.MovingAverage(value, deviceToken, sensorID, interval) on the store
\* the Processor was built with
MovingAverageCall(r, impl, value, key, timestamp) ==
    IF impl = "memory"
    THEN LET a == MovingAverageInMemory(r.entries, value, key, timestamp)
         IN  [r EXCEPT !.entries = a.entries, !.mean = a.mean]
    ELSE LET a == MovingAverageInRedis(r.zset, value, key, timestamp)
         IN  [r EXCEPT !.zset = a.zset, !.mean = a.mean]

\* one pass of the loop of processDevice over stream.Operations; dereferencing
\* the nil sensor.Value panics
OperationApplied(r, sensors, operation, token, timestamp, impl) ==
    LET i == FindSensor(sensors, operation.SensorID)
    IN  IF r.panic \/ i = 0 THEN r
        ELSE LET sensor == sensors[i]
             IN  CASE operation.Action = "SHARE" ->
                        [r EXCEPT !.processedSensors =
                            Append(@, Sensor(sensor.ID, operation.Action, sensor.Value,
                                             <<>>, <<>>, <<>>))]
                   [] operation.Action = "BIN" ->
                        IF sensor.Value = <<>> THEN [r EXCEPT !.panic = TRUE]
                        ELSE LET values == BinValue(sensor.Value[1], operation.Bins)
                             IN  [r EXCEPT !.processedSensors =
                                      Append(@, Sensor(sensor.ID, operation.Action, <<>>,
                                                       operation.Bins, values, <<>>)),
                                           !.binned = @ \cup {[value |-> sensor.Value[1],
                                                              bins |-> operation.Bins,
                                                              values |-> values]}]
                   [] operation.Action = "MOVING_AVG" ->
                        IF sensor.Value = <<>> THEN [r EXCEPT !.panic = TRUE]
                        ELSE LET key == BuildKey(token, sensor.ID, operation.Interval)
                                 a == MovingAverageCall(r, impl, sensor.Value[1], key, timestamp)
                             IN  [a EXCEPT !.processedSensors =
                                      Append(@, Sensor(sensor.ID, operation.Action, <<a.mean>>,
                                                       <<>>, <<>>, <<operation.Interval>>)),
                                           !.averaged = Append(@, [key |-> key,
                                                                   value |-> sensor.Value[1],
                                                                   mean |-> a.mean,
                                                                   now |-> timestamp])]
                   [] OTHER -> r

RECURSIVE OperationsApplied(_, _, _, _, _, _)
OperationsApplied(r, sensors, operations, token, timestamp, impl) ==
    IF operations = <<>> THEN r
    ELSE OperationsApplied(OperationApplied(r, sensors, Head(operations), token, timestamp, impl),
                           sensors, Tail(operations), token, timestamp, impl)

\* json.Marshal of a Sensor: the fields tagged omitempty are left out when nil or empty
MarshalSensor(sensor) ==
    [id |-> sensor.ID, type |-> sensor.Action]
    @@ (IF sensor.Value = <<>> THEN <<>> ELSE [value |-> sensor.Value[1]])
    @@ (IF sensor.Interval = <<>> THEN <<>> ELSE [interval |-> sensor.Interval[1]])
    @@ (IF sensor.Bins = <<>> THEN <<>> ELSE [bins |-> sensor.Bins])
    @@ (IF sensor.Values = <<>> THEN <<>> ELSE [values |-> sensor.Values])

\* json.Marshal(device)
Marshal(token, sensors) ==
    [token |-> token, sensors |-> [i \in 1..Len(sensors) |-> MarshalSensor(sensors[i])]]

\* processDevice(device, stream): the document, the Sensors the shared device is
\* left with, the store, and what BinValue and MovingAverage were called with
processDevice(token, sensors, operations, m, zs, timestamp, impl) ==
    LET r0 == [processedSensors |-> <<>>, entries |-> m, zset |-> zs, mean |-> FloatFrom(0),
               panic |-> FALSE, binned |-> {}, averaged |-> <<>>]
    IN  IF operations = <<>>
        THEN [r0 EXCEPT !.processedSensors = sensors] @@ [doc |-> Marshal(token, sensors)]
        ELSE LET r == OperationsApplied(r0, sensors, operations, token, timestamp, impl)
             IN  r @@ [doc |-> Marshal(token, r.processedSensors)]

NoXf == [stage |-> "idle", token |-> "d1", streams |-> <<>>, idx |-> 0, raw |-> <<>>,
         sensors |-> <<>>, docs |-> <<>>, msgs |-> 0, binned |-> {}, averaged |-> <<>>]

\* the device of the registry a message is processed for: its streams, each with
\* its operations
XfDevice(device_streams) == [NoXf EXCEPT !.streams = device_streams]

\* Process up to its loop: the payload is parsed into the device all streams share
Message_ParseData(raw) ==
    /\ xf.stage = "idle"
    /\ xf.msgs < MaxMessages
    /\ xf' = [xf EXCEPT !.stage = "streams", !.idx = 1, !.raw = raw, !.msgs = @ + 1,
                        !.sensors = ParseData(raw), !.docs = <<>>, !.binned = {},
                        !.averaged = <<>>]
    /\ UNCHANGED <<ctlVars, maVars, pipe, srv, hdl, pc, loc, calls>>

\* one pass of the loop of Process: processDevice, then the document is
\* encrypted and written
Message_processDevice ==
    /\ xf.stage = "streams"
    /\ xf.idx <= Len(xf.streams)
    /\ LET r == processDevice(xf.token, xf.sensors, xf.streams[xf.idx], entries, zset, now, store)
       IN  /\ ~r.panic
           /\ xf' = [xf EXCEPT !.idx = @ + 1, !.sensors = r.processedSensors,
                               !.docs = Append(@, [stream |-> xf.idx, doc |-> r.doc]),
                               !.binned = @ \cup r.binned,
                               !.averaged = @ \o [i \in 1..Len(r.averaged) |->
                                                    r.averaged[i] @@ [stream |-> xf.idx]]]
           /\ entries' = r.entries
           /\ zset' = r.zset
    /\ UNCHANGED <<ctlVars, now, store, hist, ev, pipe, srv, hdl, pc, loc, calls>>

\* the pass dereferences a nil Value: the process ends
Message_Panic ==
    /\ xf.stage = "streams"
    /\ xf.idx <= Len(xf.streams)
    /\ processDevice(xf.token, xf.sensors, xf.streams[xf.idx], entries, zset, now, store).panic
    /\ xf' = [xf EXCEPT !.stage = "panic"]
    /\ UNCHANGED <<ctlVars, maVars, pipe, srv, hdl, pc, loc, calls>>

\* Process returns nil
Message_Return ==
    /\ xf.stage = "streams"
    /\ xf.idx > Len(xf.streams)
    /\ xf' = [xf EXCEPT !.stage = "idle", !.idx = 0]
    /\ UNCHANGED <<ctlVars, maVars, pipe, srv, hdl, pc, loc, calls>>

---------------------------------------------------------------------------
(* Supervisor: pkg/server, Server.Start and Server.Stop *)

\* the server NewServer returns: no component started, the listener not bound.
\* stage is the step the main goroutine runs next
NoSrv == [stage |-> "db.Start", begun |-> {}, done |-> {}, http |-> "new", err |-> "nil"]

\* the steps of Server.Start in the order of its statements
StartSteps == <<"db.Start", "MigrateUp", "rd.Start", "encoder.Start", "ListenAndServe">>

\* the steps of Server.Stop in the order of its statements
StopSteps == <<"encoder.Stop", "mqtt.Stop", "rd.Stop", "db.Stop", "Shutdown">>

\* the errors Server.Start wraps
StartError(step) ==
    CASE step = "db.Start" -> "failed to start db"
      [] step = "MigrateUp" -> "failed to migrate the database"
      [] step = "rd.Start" -> "failed to connect to redis"
      [] OTHER -> "failed to start encoder"

\* the main goroutine took a step that returned nil
Stepped(step, next) ==
    [srv EXCEPT !.stage = next, !.begun = @ \cup {step}, !.done = @ \cup {step}]

\* a step returned an error: Start or Stop returns it and the process ends
Failed(step, err) ==
    [srv EXCEPT !.stage = "exited", !.begun = @ \cup {step}, !.err = err]

\* the process is alive
Running == srv.stage # "exited"

\* the connection pool is open: between db.Start and db.Stop
DbOpen == "db.Start" \in srv.done /\ "db.Stop" \notin srv.done

\* a listener bound before the components have started
ListenerSpawnedAtConstruction == TRUE

\* go func() { s.srv.ListenAndServe() }() runs after encoder.Start returned nil
ListenerSpawned == "encoder.Start" \in srv.done

\* the listener takes requests
Accepting == Running /\ srv.http = "listening"

\* s.db.Start(): Open(d.connStr)
Server_dbStart ==
    /\ srv.stage = "db.Start"
    /\ srv' = Stepped("db.Start", "MigrateUp")
    /\ UNCHANGED <<ctlVars, maVars, pipe, hdl, pc, loc, calls, xf>>

\* s.db.MigrateUp()
Server_MigrateUp ==
    /\ srv.stage = "MigrateUp"
    /\ srv' = Stepped("MigrateUp", "rd.Start")
    /\ UNCHANGED <<ctlVars, maVars, pipe, hdl, pc, loc, calls, xf>>

\* s.rd.Start(): ParseURL, NewClient, Ping
Server_rdStart ==
    /\ srv.stage = "rd.Start"
    /\ srv' = Stepped("rd.Start", "encoder.Start")
    /\ UNCHANGED <<ctlVars, maVars, pipe, hdl, pc, loc, calls, xf>>

\* db.Start, MigrateUp or rd.Start returns an error: Start wraps and returns it
Server_StartFail ==
    /\ srv.stage \in {"db.Start", "MigrateUp", "rd.Start"}
    /\ srv' = Failed(srv.stage, StartError(srv.stage))
    /\ UNCHANGED <<ctlVars, maVars, pipe, hdl, pc, loc, calls, xf>>

\* s.encoder.Start(): the resubscription of the devices of the registry
Server_encoderStart(t) ==
    /\ srv.stage = "encoder.Start"
    /\ Start_Begin(t) \/ Start_GetDevicesFail(t)

\* encoder.Start has returned: on nil the signal handler is set up, the listener
\* goroutine is spawned and the main goroutine waits on stopChan
Server_encoderStarted(t) ==
    /\ srv.stage = "encoder.Start"
    /\ pc[t] = "started"
    /\ loc[t].op = "Start"
    /\ srv' = IF loc[t].err = "nil"
              THEN Stepped("encoder.Start", "wait")
              ELSE Failed("encoder.Start", StartError("encoder.Start"))
    /\ Goto(t, "idle", NoLoc)
    /\ UNCHANGED <<ctlVars, maVars, pipe, hdl, calls, xf>>

\* the listener goroutine: s.srv.ListenAndServe() binds the address
Server_ListenAndServe ==
    /\ Running
    /\ ListenerSpawned
    /\ srv.http = "new"
    /\ srv' = [srv EXCEPT !.http = "listening", !.begun = @ \cup {"ListenAndServe"},
                          !.done = @ \cup {"ListenAndServe"}]
    /\ UNCHANGED <<ctlVars, maVars, pipe, hdl, pc, loc, calls, xf>>

\* ListenAndServe returns an error other than ErrServerClosed: log.Fatalf
Server_ListenFail ==
    /\ Running
    /\ ListenerSpawned
    /\ srv.http = "new"
    /\ srv' = [srv EXCEPT !.stage = "exited", !.begun = @ \cup {"ListenAndServe"},
                          !.err = "ListenAndServe()"]
    /\ UNCHANGED <<ctlVars, maVars, pipe, hdl, pc, loc, calls, xf>>

\* <-stopChan: the interrupt arrives and Start calls s.Stop()
Server_Interrupt ==
    /\ srv.stage = "wait"
    /\ srv' = [srv EXCEPT !.stage = "encoder.Stop"]
    /\ UNCHANGED <<ctlVars, maVars, pipe, hdl, pc, loc, calls, xf>>

\* s.encoder.Stop(): logs and returns nil
Server_encoderStop ==
    /\ srv.stage = "encoder.Stop"
    /\ srv' = Stepped("encoder.Stop", "mqtt.Stop")
    /\ UNCHANGED <<ctlVars, maVars, pipe, hdl, pc, loc, calls, xf>>

\* client.Stop, under clientsMu.Lock: every client of c.clients is disconnected
StopConns ==
    [i \in 1..Len(conns) |->
        IF \E b \in Brokers : clients[b] = i THEN [conns[i] EXCEPT !.open = FALSE] ELSE conns[i]]

\* client.Stop: delete(c.clients, broker) for every broker
StopClients == [b \in Brokers |-> 0]

\* client.Stop: c.subscriptions is not touched
StopSubscriptions == subscriptions

\* s.mqtt.Stop(): always nil
Server_mqttStop ==
    /\ srv.stage = "mqtt.Stop"
    /\ conns' = StopConns
    /\ clients' = StopClients
    /\ subscriptions' = StopSubscriptions
    /\ srv' = Stepped("mqtt.Stop", "rd.Stop")
    /\ UNCHANGED <<regVars, issued, maVars, pipe, hdl, pc, loc, calls, xf>>

\* s.rd.Stop(): r.client.Close()
Server_rdStop ==
    /\ srv.stage = "rd.Stop"
    /\ srv' = Stepped("rd.Stop", "db.Stop")
    /\ UNCHANGED <<ctlVars, maVars, pipe, hdl, pc, loc, calls, xf>>

\* s.db.Stop(): d.DB.Close()
Server_dbStop ==
    /\ srv.stage = "db.Stop"
    /\ srv' = Stepped("db.Stop", "Shutdown")
    /\ UNCHANGED <<ctlVars, maVars, pipe, hdl, pc, loc, calls, xf>>

\* rd.Stop or db.Stop returns an error: Stop returns it before s.srv.Shutdown
Server_StopFail ==
    /\ srv.stage \in {"rd.Stop", "db.Stop"}
    /\ srv' = Failed(srv.stage, "close failed")
    /\ UNCHANGED <<ctlVars, maVars, pipe, hdl, pc, loc, calls, xf>>

\* s.srv.Shutdown(ctx): the listener is closed, the requests in flight are waited
\* for until ctx expires
Server_Shutdown ==
    /\ srv.stage = "Shutdown"
    /\ srv' = [Stepped("Shutdown", "draining") EXCEPT !.http = "shutdown"]
    /\ UNCHANGED <<ctlVars, maVars, pipe, hdl, pc, loc, calls, xf>>

\* Shutdown returns, no request is left or the five seconds are over: Stop and
\* Start return and the process ends
Server_Exit ==
    /\ srv.stage = "draining"
    /\ srv' = [srv EXCEPT !.stage = "exited"]
    /\ UNCHANGED <<ctlVars, maVars, pipe, hdl, pc, loc, calls, xf>>

---------------------------------------------------------------------------
(* The message handler: the handler of client.Subscribe and handleCallback *)

\* a topic is the sequence of its levels
MatchingTopic(token) == <<"device", "sck", token, "readings">>

\* the topics of the messages the broker delivers: the filter of a subscription is
\* the device_token CreateStream was given, whatever it holds
MessageTopics ==
    {MatchingTopic("d1"), MatchingTopic("d2"), <<"d1">>, <<"x", "device", "sck", "d1", "readings">>}

\* \w+ : a level of word characters
IsWord(level) == level \notin {"", "+", "#", "device/sck"}

\* extractToken: topicPattern.FindStringSubmatch(topic) with the pattern
\* device/sck/(\w+)/readings, which is not anchored; no match is an error and the
\* empty token
extractToken(topic) ==
    LET starts == {i \in 1..(Len(topic) - 3) :
                      /\ topic[i] = "device"
                      /\ topic[i + 1] = "sck"
                      /\ IsWord(topic[i + 2])
                      /\ topic[i + 3] = "readings"}
    IN  IF starts = {}
        THEN [token |-> "", err |-> "Unable to extract device token"]
        ELSE [token |-> topic[(CHOOSE i \in starts : \A j \in starts : i <= j) + 2],
              err |-> "nil"]

\* the connection after Connect: nothing received, no handler running
NoHdl == [inbox |-> <<>>, received |-> 0, stage |-> "idle", topic |-> <<>>, payload |-> "nil",
          token |-> "", found |-> FALSE, streams |-> {}, lookups |-> <<>>, errs |-> <<>>]

\* the sequences that hold every element of S once: rows come back in any order
Orders(S) ==
    {s \in [1..Cardinality(S) -> S] : \A i, j \in 1..Cardinality(S) : s[i] = s[j] => i = j}

\* the broker sends a message of a subscribed topic to the connection
Broker_Publish(topic, payload) ==
    /\ hdl.stage # "panic"
    /\ hdl.received < MaxMessages
    /\ hdl' = [hdl EXCEPT !.inbox = Append(@, [topic |-> topic, payload |-> payload]),
                          !.received = @ + 1]
    /\ UNCHANGED <<ctlVars, maVars, pipe, srv, pc, loc, calls, xf>>

\* the client loop calls the handler of the subscription with the next message, on
\* its own goroutine (the client options are the defaults, which keep the order of
\* messages): handler calls cb, cb calls handleCallback, which extracts the token
\* and logs an error of extractToken
ClientLoop_Deliver ==
    /\ hdl.stage = "idle"
    /\ hdl.inbox # <<>>
    /\ LET m == Head(hdl.inbox)
           r == extractToken(m.topic)
       IN  hdl' = [hdl EXCEPT !.inbox = Tail(@), !.stage = "get", !.topic = m.topic,
                              !.payload = m.payload, !.token = r.token,
                              !.errs = IF r.err = "nil" THEN @ ELSE Append(@, r.err)]
    /\ UNCHANGED <<ctlVars, maVars, pipe, srv, pc, loc, calls, xf>>

\* handleCallback: device, err := e.db.GetDevice(token); an error is logged
handleCallback_GetDevice ==
    /\ hdl.stage = "get"
    /\ LET r == GetDevice(hdl.token)
       IN  hdl' = [hdl EXCEPT !.stage = "process",
                              !.found = (r.err = "nil"),
                              !.streams = IF r.err = "nil"
                                          THEN {s.community_id : s \in r.device.Streams}
                                          ELSE {},
                              !.lookups = Append(@, hdl.topic),
                              !.errs = IF r.err = "nil" THEN @ ELSE Append(@, r.err)]
    /\ UNCHANGED <<ctlVars, maVars, pipe, srv, pc, loc, calls, xf>>

\* handleCallback: e.processor.Process(device, payload), called where it stands
handleCallback_Process ==
    /\ hdl.stage = "process"
    /\ pipe.stage = "idle"
    /\ ~(~hdl.found /\ hdl.payload = "ok")
    /\ \E order \in Orders(hdl.streams) :
          pipe' = Process_Called([pipe EXCEPT !.streams = order], hdl.payload)
    /\ hdl' = [hdl EXCEPT !.stage = "processing"]
    /\ UNCHANGED <<ctlVars, maVars, srv, pc, loc, calls, xf>>

\* Process with the nil device of a failed GetDevice and a payload that parses:
\* ParseData reads device.DeviceToken and the process panics
handleCallback_Panic ==
    /\ hdl.stage = "process"
    /\ ~hdl.found /\ hdl.payload = "ok"
    /\ hdl' = [hdl EXCEPT !.stage = "panic"]
    /\ UNCHANGED <<ctlVars, maVars, pipe, srv, pc, loc, calls, xf>>

\* Process has returned: its error is logged, the handler returns to the loop
handleCallback_Return ==
    /\ hdl.stage = "processing"
    /\ pipe.stage = "returned"
    /\ hdl' = [hdl EXCEPT !.stage = "idle", !.topic = <<>>, !.payload = "nil", !.token = "",
                          !.found = FALSE, !.streams = {},
                          !.errs = IF pipe.err = "nil" THEN @ ELSE Append(@, pipe.err)]
    /\ pipe' = [pipe EXCEPT !.stage = "idle", !.idx = 0, !.outcome = <<>>, !.err = "nil",
                            !.streams = <<>>]
    /\ UNCHANGED <<ctlVars, maVars, srv, pc, loc, calls, xf>>

---------------------------------------------------------------------------
(* Specifications *)

\* the registry after n earlier CreateStream calls for one device, one community
\* each, and the manager after the Start that subscribed its device
SeedCommunity == <<"c1", "c2">>
SeedDevice == [id |-> 1, device_token |-> "d1", attrs |-> "here"]
SeedStream(i) == [uuid |-> i, device_id |-> 1, community_id |-> SeedCommunity[i],
                  public_key |-> "pk1", token |-> pgp_sym_encrypt(i, EncryptionPassword)]

Seeded(n) ==
    /\ devices = IF n = 0 THEN {} ELSE {SeedDevice}
    /\ streams = {SeedStream(i) : i \in 1..n}
    /\ devSeq = n + 1
    /\ rndSeq = n
    /\ issued = {<<i, i>> : i \in 1..n}
    /\ clients = [b \in Brokers |-> IF n > 0 /\ b = BrokerAddr THEN 1 ELSE 0]
    /\ subscriptions = IF n = 0 THEN {} ELSE {"d1"}
    /\ conns = IF n = 0 THEN <<>>
               ELSE <<[broker |-> BrokerAddr, topics |-> {"d1"}, open |-> TRUE]>>

\* no goroutine has started
Idle ==
    /\ tx = [t \in Threads |-> NoTx]
    /\ pc = [t \in Threads |-> "idle"]
    /\ loc = [t \in Threads |-> NoLoc]
    /\ calls = 0

\* the moving average store after construction
EmptyStore(impl) ==
    /\ store = impl
    /\ entries = <<>>
    /\ zset = [k \in MAKeys |-> {}]
    /\ now = 0
    /\ hist = <<>>
    /\ ev = 0

Init ==
    /\ \E n \in 0..Len(SeedCommunity) : Seeded(n)
    /\ Idle
    /\ EmptyStore("memory")
    /\ pipe = NoPipe
    /\ srv = NoSrv
    /\ hdl = NoHdl
    /\ xf = NoXf

\* a registry at startup: per device token no row, a row without streams, or a row
\* with one or two streams
StartShapes == [Topics -> {"absent", "orphan", "one", "two"}]

StartDeviceID(token) == IF token = "d1" THEN 1 ELSE 2

StartStreams(token, shape) ==
    LET n == CASE shape = "one" -> 1 [] shape = "two" -> 2 [] OTHER -> 0
    IN  {[uuid |-> 2 * (StartDeviceID(token) - 1) + i, device_id |-> StartDeviceID(token),
          community_id |-> SeedCommunity[i], public_key |-> "pk1",
          token |-> pgp_sym_encrypt(2 * (StartDeviceID(token) - 1) + i, EncryptionPassword)]
         : i \in 1..n}

\* the process starts on a registry earlier runs have left; the manager is new
InitStart ==
    /\ \E shape \in StartShapes :
          /\ devices = {[id |-> StartDeviceID(token), device_token |-> token, attrs |-> "here"]
                          : token \in {x \in Topics : shape[x] # "absent"}}
          /\ streams = UNION {StartStreams(token, shape[token]) : token \in Topics}
    /\ devSeq = Cardinality(Topics) + 1
    /\ rndSeq = 2 * Cardinality(Topics)
    /\ issued = {<<r.uuid, r.uuid>> : r \in streams}
    /\ clients = [b \in Brokers |-> 0]
    /\ subscriptions = {}
    /\ conns = <<>>
    /\ Idle
    /\ EmptyStore("memory")
    /\ pipe = NoPipe
    /\ srv = NoSrv
    /\ hdl = NoHdl
    /\ xf = NoXf

InitMA ==
    /\ Seeded(0)
    /\ Idle
    /\ \E impl \in MAStores : EmptyStore(impl)
    /\ pipe = NoPipe
    /\ srv = NoSrv
    /\ hdl = NoHdl
    /\ xf = NoXf

InitPipe ==
    /\ Seeded(0)
    /\ Idle
    /\ EmptyStore("memory")
    /\ \E n \in 0..Len(PipeCommunities) : pipe = PipeDevice(n)
    /\ srv = NoSrv
    /\ hdl = NoHdl
    /\ xf = NoXf

\* the steps of the RPCs when nothing outside the encoder fails
RpcStep(t) ==
    \/ \E token \in DeviceTokens, community \in Communities, key \in PublicKeys, attrs \in Attrs :
            CreateStream_Begin(t, token, community, key, attrs)
    \/ CreateStream_Upsert(t)
    \/ CreateStream_Generate(t)
    \/ CreateStream_Insert(t)
    \/ \E req \in DeleteRequests : DeleteStream_Begin(t, req[1], req[2])
    \/ DeleteStream_Delete(t)
    \/ DeleteStream_Count(t)
    \/ DeleteStream_DeleteDevice(t)
    \/ CommitOrRollback(t)
    \/ Subscribe_Check(t)
    \/ getClient_Lookup(t)
    \/ getClient_Connect(t)
    \/ Subscribe_Broker(t)
    \/ Subscribe_Record(t)
    \/ Unsubscribe_Broker(t)
    \/ Unsubscribe_Record(t)
    \/ Return(t)

\* the failures of the database, of the random source and of the broker
RegistryFault(t) ==
    \/ CreateStream_UuidFail(t)
    \/ CreateStream_TokenFail(t)
    \/ Statement_Fail(t)
    \/ Commit_Fail(t)

MqttFault(t) ==
    \/ Connect_Fail(t)
    \/ Broker_Fail(t)

\* the manager called directly
MqttStep(t) ==
    \/ \E broker \in Brokers, topic \in Topics : Subscribe_Begin(t, broker, topic)
    \/ \E broker \in Brokers, topic \in Topics : Unsubscribe_Begin(t, broker, topic)
    \/ Subscribe_Check(t)
    \/ getClient_Lookup(t)
    \/ getClient_Connect(t)
    \/ Subscribe_Broker(t)
    \/ Subscribe_Record(t)
    \/ Unsubscribe_Broker(t)
    \/ Unsubscribe_Record(t)
    \/ Return(t)

Next == \E t \in Threads : RpcStep(t) \/ RegistryFault(t) \/ MqttFault(t)

NextRpc == \E t \in Threads : RpcStep(t)

NextMqtt == \E t \in Threads : MqttStep(t) \/ MqttFault(t)

\* the startup of the encoder, with the failures of the database and the broker
NextStart ==
    \E t \in Threads :
        \/ Start_Begin(t)
        \/ Start_GetDevicesFail(t)
        \/ Start_Next(t)
        \/ Start_Subscribed(t)
        \/ Subscribe_Check(t)
        \/ getClient_Lookup(t)
        \/ getClient_Connect(t)
        \/ Subscribe_Broker(t)
        \/ Subscribe_Record(t)
        \/ MqttFault(t)

\* the calls of MovingAverage and the clock
MAStep(t) ==
    \/ \E value \in Values, key \in MAKeys : MovingAverage_Begin(t, value, key)
    \/ Memory_Read(t)
    \/ Memory_Write(t)
    \/ Redis_ZAdd(t)
    \/ Redis_ZRangeByScore(t)
    \/ Redis_ZRemRangeByScore(t)
    \/ Script_Eval(t)
    \/ MovingAverage_Return(t)

NextMA == Tick \/ \E t \in Threads : MAStep(t)

\* Process, with the failures of its three stages
NextPipe ==
    \/ \E payload \in Payloads : Process_Begin(payload)
    \/ Process_Transform
    \/ Process_Encrypt
    \/ Process_Write
    \/ Process_Return
    \/ Transform_Fail
    \/ Zenroom_Fail
    \/ Datastore_Fail

\* the RPCs, with failures of the database, the random source and the broker
\* the RPCs of a server: accepted while the listener is bound, their statements
\* fail once the pool is closed, their requests to the broker fail on a client Stop
\* has disconnected, and everything ends with the process
ServerRpc(t) ==
    \/ /\ Accepting
       /\ \E token \in DeviceTokens, community \in Communities, key \in PublicKeys, attrs \in Attrs :
              CreateStream_Begin(t, token, community, key, attrs)
    \/ /\ Accepting
       /\ \E req \in DeleteRequests : DeleteStream_Begin(t, req[1], req[2])
    \/ /\ Running
       /\ CreateStream_Generate(t)
    \/ /\ Running
       /\ DbOpen
       /\ \/ CreateStream_Upsert(t)
          \/ CreateStream_Insert(t)
          \/ DeleteStream_Delete(t)
          \/ DeleteStream_Count(t)
          \/ DeleteStream_DeleteDevice(t)
    \/ /\ Running
       /\ DbOpen \/ tx[t].finalised
       /\ CommitOrRollback(t)
    \/ /\ Running
       /\ ~DbOpen
       /\ Statement_Fail(t) \/ Commit_Fail(t)
    \/ /\ Running
       /\ loc[t].op # "Start"
       /\ \/ Subscribe_Check(t)
          \/ getClient_Lookup(t)
          \/ getClient_Connect(t)
          \/ Subscribe_Record(t)
          \/ Unsubscribe_Record(t)
          \/ Return(t)
    \/ /\ Running
       /\ loc[t].op # "Start"
       /\ pc[t] \in {"sub_broker", "unsub_broker"}
       /\ IF conns[loc[t].client].open
          THEN Subscribe_Broker(t) \/ Unsubscribe_Broker(t)
          ELSE Broker_Fail(t)

\* the Subscribe calls of encoder.Start, with the failures of the broker
ServerStart(t) ==
    \/ Server_encoderStart(t)
    \/ /\ loc[t].op = "Start"
       /\ \/ Start_Next(t)
          \/ Start_Subscribed(t)
          \/ Subscribe_Check(t)
          \/ getClient_Lookup(t)
          \/ getClient_Connect(t)
          \/ Subscribe_Broker(t)
          \/ Subscribe_Record(t)
          \/ MqttFault(t)
    \/ Server_encoderStarted(t)

\* a new process on the registry earlier runs have left: the rows of n streams of
\* one device, a manager without clients
InitServer ==
    /\ \E n \in 0..Len(SeedCommunity) :
          /\ devices = IF n = 0 THEN {} ELSE {SeedDevice}
          /\ streams = {SeedStream(i) : i \in 1..n}
          /\ devSeq = n + 1
          /\ rndSeq = n
          /\ issued = {<<i, i>> : i \in 1..n}
    /\ clients = [b \in Brokers |-> 0]
    /\ subscriptions = {}
    /\ conns = <<>>
    /\ Idle
    /\ EmptyStore("memory")
    /\ pipe = NoPipe
    /\ srv = NoSrv
    /\ hdl = NoHdl
    /\ xf = NoXf

\* the server from NewServer to the end of the process
NextServer ==
    \/ Server_dbStart
    \/ Server_MigrateUp
    \/ Server_rdStart
    \/ Server_StartFail
    \/ Server_ListenAndServe
    \/ Server_ListenFail
    \/ Server_Interrupt
    \/ Server_encoderStop
    \/ Server_mqttStop
    \/ Server_rdStop
    \/ Server_dbStop
    \/ Server_StopFail
    \/ Server_Shutdown
    \/ Server_Exit
    \/ \E t \in Threads : ServerStart(t) \/ ServerRpc(t)

\* one broker connection: its messages, its loop, the handler and Process
InitHandler ==
    /\ \E n \in 0..Len(SeedCommunity) : Seeded(n)
    /\ Idle
    /\ EmptyStore("memory")
    /\ pipe = NoPipe
    /\ srv = NoSrv
    /\ hdl = NoHdl
    /\ xf = NoXf

NextHandler ==
    \/ \E topic \in MessageTopics, payload \in Payloads : Broker_Publish(topic, payload)
    \/ ClientLoop_Deliver
    \/ handleCallback_GetDevice
    \/ handleCallback_Process
    \/ handleCallback_Panic
    \/ Process_Transform
    \/ Transform_Fail
    \/ Process_Encrypt
    \/ Zenroom_Fail
    \/ Process_Write
    \/ Datastore_Fail
    \/ handleCallback_Return

\* a device with one or two streams, processed in the order the registry returned them
InitMessage ==
    /\ Seeded(0)
    /\ Idle
    /\ \E impl \in {"memory", "redis"} : EmptyStore(impl)
    /\ pipe = NoPipe
    /\ srv = NoSrv
    /\ hdl = NoHdl
    /\ \E o1 \in StreamOperations :
          \/ xf = XfDevice(<<o1>>)
          \/ \E o2 \in StreamOperations : xf = XfDevice(<<o1, o2>>)

NextMessage ==
    \/ \E raw \in RawPayloads : Message_ParseData(raw)
    \/ Message_processDevice
    \/ Message_Panic
    \/ Message_Return
    \/ Tick

\* the RPC CreateStream called by one caller with valid and invalid requests
NextValidate ==
    \/ \E req \in CreateStreamRequests : CreateStream_Validate("g1", req)
    \/ CreateStream_Upsert("g1")
    \/ CreateStream_Generate("g1")
    \/ CreateStream_Insert("g1")
    \/ CommitOrRollback("g1")
    \/ Subscribe_Check("g1")
    \/ getClient_Lookup("g1")
    \/ getClient_Connect("g1")
    \/ Subscribe_Broker("g1")
    \/ Subscribe_Record("g1")
    \/ Return("g1")

Spec == Init /\ [][Next]_vars

\* the RPCs when nothing outside the encoder fails
SpecRpc == Init /\ [][NextRpc]_vars

\* the subscription manager called from several goroutines
SpecMqtt == Init /\ [][NextMqtt]_vars

\* encoderImpl.Start on the registry of earlier runs
SpecStart == InitStart /\ [][NextStart]_vars

\* concurrent MovingAverage calls on one store
SpecMA == InitMA /\ [][NextMA]_vars

\* the messages of one device through Processor.Process
SpecPipe == InitPipe /\ [][NextPipe]_vars

SpecServer == InitServer /\ [][NextServer]_vars

SpecHandler == InitHandler /\ [][NextHandler]_vars

SpecMessage == InitMessage /\ [][NextMessage]_vars

SpecValidate == Init /\ [][NextValidate]_vars

---------------------------------------------------------------------------
(* Properties *)

AllReturned == \A t \in Threads : pc[t] = "idle"

\* the streams of the device with a token
StreamsOf(token) ==
    {s \in streams : \E d \in devices : d.id = s.device_id /\ d.device_token = token}

\* the open connections to a broker
ConnectionsTo(broker) == {i \in 1..Len(conns) : conns[i].open /\ conns[i].broker = broker}

\* the key (broker, topic) is subscribed: recorded by the manager and held by the broker
\* for the manager's connection
KeySubscribed(broker, topic) ==
    /\ topic \in subscriptions
    /\ clients[broker] # 0
    /\ topic \in conns[clients[broker]].topics

\* C1: once every CreateStream and DeleteStream call has returned, the broker holds
\* exactly one subscription for a device token if some stream refers to the token,
\* and none otherwise.
C1_SubscriptionSingleton ==
    AllReturned =>
        \A token \in DeviceTokens :
            Cardinality(ActiveSubscriptions(BrokerAddr, token))
                = IF StreamsOf(token) # {} THEN 1 ELSE 0

\* C2: every stream row refers to exactly one device row, and every device row has
\* at least one stream row.
C2_StreamsAndDevices ==
    /\ \A s \in streams : Cardinality({d \in devices : d.id = s.device_id}) = 1
    /\ \A d \in devices : \E s \in streams : s.device_id = d.id

\* C3: the step in which Registry.CreateStream returns an error leaves the tables
\* devices and streams as they were.
C3_FailedCreateWritesNothing ==
    [][\A t \in Threads :
          (/\ loc[t].op = "CreateStream"
           /\ pc[t] = "defer"
           /\ pc'[t] = "done"
           /\ loc'[t].err # "nil")
          => (devices' = devices /\ streams' = streams)]_vars

\* C4: no two stream rows have the same (device_id, community_id).
C4_UniqueDeviceCommunity ==
    \A s1 \in streams, s2 \in streams :
        (s1.device_id = s2.device_id /\ s1.community_id = s2.community_id) => s1 = s2

\* a CreateStream is refused as a duplicate while another CreateStream for the same
\* device, which wrote its stream, has not returned yet
C4_Witness ==
    \E t \in Threads, u \in Threads :
        /\ t # u
        /\ pc[t] = "done" /\ loc[t].op = "CreateStream"
        /\ loc[t].err = "device already registered within community"
        /\ pc[u] \notin {"idle", "done"} /\ loc[u].op = "CreateStream"
        /\ loc[u].device_token = loc[t].device_token
        /\ loc[u].err = "nil" /\ loc[u].topic # ""
        /\ Cardinality(StreamsOf(loc[t].device_token)) >= 1

\* C11: a DeleteStream whose stream_uid and token match no stream returns an error
\* from its DELETE with nothing written, and no step of a DeleteStream that has its
\* error changes the tables, the manager or the broker.
C11_FailedDeleteChangesNothing ==
    [][\A t \in Threads :
          (loc[t].op = "DeleteStream" /\ pc'[t] # pc[t])
          => /\ (/\ pc[t] = "ds_delete"
                 /\ ~\E s \in streams :
                        /\ s.uuid = loc[t].stream_uid
                        /\ s.token = pgp_sym_encrypt(loc[t].token, EncryptionPassword))
                => (/\ loc'[t].err # "nil"
                    /\ pc'[t] = "defer"
                    /\ tx'[t].strDel = {} /\ tx'[t].devDel = {}
                    /\ devices' = devices /\ streams' = streams
                    /\ mqttVars' = mqttVars)
             /\ loc[t].err # "nil"
                => (/\ pc'[t] \in {"done", "idle"}
                    /\ devices' = devices /\ streams' = streams
                    /\ mqttVars' = mqttVars)]_vars

\* a DeleteStream with a wrong token for a stream that exists has returned its error,
\* and the stream, its device and the subscription of the device are there
C11_Witness ==
    \E t \in Threads, s \in streams, d \in devices :
        /\ pc[t] = "done" /\ loc[t].op = "DeleteStream"
        /\ loc[t].err = "failed to delete stream"
        /\ s.uuid = loc[t].stream_uid
        /\ pgp_sym_decrypt(s.token, EncryptionPassword) # loc[t].token
        /\ d.id = s.device_id
        /\ KeySubscribed(BrokerAddr, d.device_token)

\* C12: a DeleteStream RPC whose DELETE found no stream for its stream_uid and token
\* returns the error code not_found.
C12_DeleteNotFound ==
    \A t \in Threads :
        (/\ pc[t] = "done" /\ loc[t].op = "DeleteStream"
         /\ loc[t].err = "failed to delete stream")
        => ResponseCode(loc[t]) = "not_found"

C14_DuplicateAlreadyExists ==
    \A t \in Threads :
        (/\ pc[t] = "done" /\ loc[t].op = "CreateStream"
         /\ loc[t].err = "device already registered within community")
        => ResponseCode(loc[t]) = "already_exists"

\* C15: when the transaction of a DeleteStream commits the removal of a stream, the
\* device of the stream is gone and GetDevice fails for its token if no stream of
\* the device is left, and the device is still there if one is.
C15_DeviceCollected ==
    [][\A t \in Threads :
          (/\ loc[t].op = "DeleteStream"
           /\ pc[t] = "defer" /\ pc'[t] # "defer"
           /\ streams' # streams)
          => \A d \in devices :
                (\E r \in streams \ streams' : r.device_id = d.id)
                => IF \E r \in streams' : r.device_id = d.id
                   THEN d \in devices'
                   ELSE d \notin devices' /\ GetDevice(d.device_token)'.err # "nil"]_vars

\* the messages of the errors an RPC returns
ErrorMessages ==
    {"nil", "statement failed", "commit failed", "failed to delete stream",
     "failed to delete device", "device already registered within community",
     "failed to generate stream UUID", "failed to generate random token",
     "failed to get client", "broker request failed"}

\* C16: no row that GetDevices or GetDevice returns has the column token, the
\* device DeleteStream returns is a device token, and the message of an error is
\* one of the fixed messages.
C16_TokenNotReadBack ==
    /\ \A d \in GetDevices : "token" \notin DOMAIN d
    /\ \A deviceToken \in DeviceTokens :
          GetDevice(deviceToken).err = "nil"
          => /\ "token" \notin DOMAIN GetDevice(deviceToken).device
             /\ \A r \in GetDevice(deviceToken).device.Streams : "token" \notin DOMAIN r
    /\ \A t \in Threads :
          loc[t].op \in {"CreateStream", "DeleteStream"}
          => /\ loc[t].retDevice \in DeviceTokens \cup {""}
             /\ Response(loc[t]).msg \in ErrorMessages

\* a CreateStream is about to return the token of the stream it wrote, and
\* GetDevices and GetDevice return the device of the stream
C16_Witness ==
    \E r \in streams, t \in Threads, d \in GetDevices :
        /\ pc[t] = "done" /\ loc[t].op = "CreateStream" /\ loc[t].err = "nil"
        /\ loc[t].stream_uid = r.uuid
        /\ pgp_sym_decrypt(r.token, EncryptionPassword) = loc[t].token
        /\ d.id = r.device_id
        /\ GetDevice(d.device_token).err = "nil"
        /\ GetDevice(d.device_token).device.Streams # {}

\* C17: when the Subscribe of a CreateStream RPC fails, the RPC returns an internal
\* error, and the stream and the device that its registry call wrote stay in the
\* tables.
C17_SubscribeFailureKeepsRows ==
    [][\A t \in Threads :
          (/\ loc[t].op = "CreateStream"
           /\ pc[t] \in {"gc_connect", "sub_broker"}
           /\ pc'[t] = "done"
           /\ loc'[t].err # "nil")
          => /\ ResponseCode(loc'[t]) = "internal"
             /\ devices' = devices /\ streams' = streams
             /\ \E r \in streams', d \in devices' :
                    /\ r.uuid = loc[t].stream_uid
                    /\ d.id = r.device_id
                    /\ d.device_token = loc[t].device_token]_vars

\* a CreateStream RPC has its error from the manager, and its stream is in the registry
C17_Witness ==
    \E t \in Threads, r \in streams :
        /\ pc[t] = "done" /\ loc[t].op = "CreateStream"
        /\ loc[t].err \in {"failed to get client", "broker request failed"}
        /\ r.uuid = loc[t].stream_uid

\* The decision of the DeleteStream RPC: when its registry call returns, the RPC goes
\* on to Unsubscribe exactly if the commit deleted the device row of the stream, with the
\* token of that row on the configured broker, and then no stream refers to the
\* row; a DeleteStream RPC starts an Unsubscribe nowhere else.
UnsubscribeIffDeviceDeleted ==
    [][\A t \in Threads :
          /\ (loc[t].op = "DeleteStream" /\ pc[t] = "defer" /\ pc'[t] # "defer")
             => LET deleted == {d \in devices \ devices' : d.id = loc[t].deviceID}
                IN  /\ pc'[t] \in {"gc_check", "done"}
                    /\ pc'[t] = "gc_check" <=> deleted # {}
                    /\ pc'[t] = "gc_check"
                       => /\ loc'[t].broker = BrokerAddr
                          /\ loc'[t].topic \in {d.device_token : d \in deleted}
                          /\ ~\E r \in streams' : r.device_id = loc[t].deviceID
          /\ (loc'[t].op = "DeleteStream" /\ pc'[t] = "gc_check" /\ pc[t] # "gc_check")
             => pc[t] = "defer"]_vars

\* C18: a DeleteStream RPC sends its unsubscribe request for a device token only
\* while no stream of the registry is a stream of the device with that token.
C18_NoUnsubscribeWhileStreamRemains ==
    \A t \in Threads :
        (loc[t].op = "DeleteStream" /\ pc[t] = "unsub_broker")
        => StreamsOf(loc[t].topic) = {}

\* C19: when Start has returned and every Subscribe of it succeeded, the broker
\* holds exactly one subscription for each device token that has a stream in the
\* registry, and none for any other token.
C19_StartSubscribesStreams ==
    \A t \in Threads :
        (/\ pc[t] = "started" /\ loc[t].err = "nil" /\ loc[t].failed = {})
        => \A token \in Topics :
              Cardinality(ActiveSubscriptions(BrokerAddr, token))
                  = IF StreamsOf(token) # {} THEN 1 ELSE 0

\* C20: unless GetDevices failed, Start returns nil after it has called Subscribe
\* once for every device GetDevices returned, whatever Subscribe returned.
C20_StartContinues ==
    \A t \in Threads :
        (pc[t] = "started" /\ loc[t].err # "failed to load devices")
        => /\ loc[t].err = "nil"
           /\ Len(loc[t].attempted) = Cardinality(GetDevices)
           /\ {loc[t].attempted[i] : i \in 1..Len(loc[t].attempted)}
                 = {d.device_token : d \in GetDevices}

\* Start has returned: the Subscribe of its first device failed, and the second
\* device was subscribed after that
C20_Witness ==
    \E t \in Threads :
        /\ pc[t] = "started" /\ loc[t].err = "nil"
        /\ Len(loc[t].attempted) = 2
        /\ loc[t].failed = {loc[t].attempted[1]}
        /\ Cardinality(ActiveSubscriptions(BrokerAddr, loc[t].attempted[2])) = 1


\* a step of Server.Start has begun: encoder.Start from its GetDevices on
StepBegun(step) ==
    \/ step \in srv.begun
    \/ step = "encoder.Start" /\ \E t \in Threads : loc[t].op = "Start"

\* C21: the steps of startup run in the order registry open, up-migrations,
\* moving average store, resubscription, listener, each begun only after the one
\* before it has succeeded, and no RPC is served while the resubscription runs or
\* before it has returned
C21_StartupOrder ==
    /\ \A i \in 2..Len(StartSteps) : StepBegun(StartSteps[i]) => StartSteps[i - 1] \in srv.done
    /\ \A t \in Threads :
          loc[t].op \in {"CreateStream", "DeleteStream"} =>
              /\ "encoder.Start" \in srv.done
              /\ \A u \in Threads : loc[u].op # "Start"

\* a CreateStream has been served by a server that resubscribed a device at startup
C21_Witness ==
    /\ srv.http = "listening"
    /\ "d1" \in subscriptions
    /\ \E t \in Threads : loc[t].op = "CreateStream" /\ pc[t] = "done" /\ loc[t].err = "nil"


\* C22: a failure of the moving average store at startup is not fatal: the server
\* whose rd.Start returned an error goes on to resubscribe and to serve
C22_RedisFailureNonFatal ==
    ("rd.Start" \in srv.begun /\ "rd.Start" \notin srv.done) => Running

\* C23: the shutdown stops the listener before it stops the manager: from the
\* moment SubscriptionManager.Stop() has begun no CreateStream or DeleteStream is
\* accepted
C23_NoRpcAfterManagerStop ==
    [][("mqtt.Stop" \in srv.begun) =>
          \A t \in Threads :
             (pc[t] = "idle" /\ pc'[t] # "idle") =>
                 loc'[t].op \notin {"CreateStream", "DeleteStream"}]_vars

\* C24: Stop leaves the manager without a client and without a recorded
\* subscription
C24_StopClearsState ==
    [][("mqtt.Stop" \notin srv.done /\ "mqtt.Stop" \in srv'.done) =>
          /\ \A b \in Brokers : clients'[b] = 0
          /\ subscriptions' = {}]_vars


\* C25: the handler does not run the work of Process on the goroutine of the
\* client loop: while Process is at work on one message for one stream, the loop
\* can deliver the next message that waits
C25_LoopKeepsDelivering ==
    (hdl.inbox # <<>> /\ pipe.stage \in {"transform", "encrypt", "write"}) =>
        ENABLED ClientLoop_Deliver

\* C26: a message whose topic does not match device/sck/{device_token}/readings is
\* dropped: no lookup in the registry is made for it and Process is not called
\* with it
C26_NonMatchingDropped ==
    /\ \A i \in DOMAIN hdl.lookups : extractToken(hdl.lookups[i]).err = "nil"
    /\ hdl.stage \in {"process", "processing", "panic"} => extractToken(hdl.topic).err = "nil"


\* C37: a message of a topic that names a device token for which GetDevice
\* returns an error (no such device) is dropped: Process is not called with the
\* missing device and the handler does not crash.
C37_MissingDeviceDropped ==
    (extractToken(hdl.topic).err = "nil" /\ hdl.stage \in {"processing", "panic"}) => hdl.found

\* C39: once Server.Stop has returned, with an error of a component or without,
\* the stop of every component has been attempted and the HTTP listener has
\* been shut down (the process was not ended by the goroutine of the listener).
C39_EveryStopAttempted ==
    (srv.stage = "exited" /\ "encoder.Stop" \in srv.begun /\ srv.err # "ListenAndServe()") =>
        \A i \in 1..Len(StopSteps) : StopSteps[i] \in srv.begun

\* the errors a registry call returns after a statement of its transaction failed
StatementErrors ==
    {"statement failed", "device already registered within community",
     "failed to delete stream", "failed to delete device"}

SerialCall(st, c) ==
    IF store = "memory"
    THEN LET ok == c.key \in DOMAIN st
             a == Averaged(ok, IF ok THEN st[c.key] ELSE <<>>, c.value, c.now, c.now - c.key[3])
         IN  [st |-> [k \in DOMAIN st \cup {c.key} |-> IF k = c.key THEN a.entries ELSE st[k]],
              mean |-> a.mean]
    ELSE LET r == Script(st[c.key], c.now, c.now - c.key[3], Member(c.value, c.now))
         IN  [st |-> [st EXCEPT ![c.key] = r.zset], mean |-> r.mean]

\* two quotients <<accumulator, counter>> are the same number
SameMean(m1, m2) == m1[1] * m2[2] = m2[1] * m1[2]

\* the orders of the returned calls in which a call that returned before another was
\* invoked comes first
SerialOrders ==
    {f \in [1..Len(hist) -> 1..Len(hist)] :
        /\ \A i, j \in 1..Len(hist) : i # j => f[i] # f[j]
        /\ \A i, j \in 1..Len(hist) : i < j => ~(hist[f[j]].res < hist[f[i]].inv)}

RECURSIVE Replays(_, _, _)
Replays(f, i, st) ==
    IF i > Len(hist) THEN TRUE
    ELSE LET r == SerialCall(st, hist[f[i]])
         IN  SameMean(r.mean, hist[f[i]].mean) /\ Replays(f, i + 1, r.st)

\* C5: once the MovingAverage calls have returned, the means they returned are the
\* means of the same calls run one after another in some order that keeps every call
\* between its invocation and its return.
C5_LinearizablePerKey ==
    AllReturned =>
        \E f \in SerialOrders :
            Replays(f, 1, IF store = "memory" THEN <<>> ELSE [k \in MAKeys |-> {}])

\* C6: with a Redis store, while one MovingAverage call is between its add and its
\* remove, no other call on the same key has added, ranged or removed.
C6_AtomicAddRangeRemove ==
    store # "memory" =>
        \A t \in Threads, u \in Threads :
            (/\ t # u
             /\ pc[t] \in {"r_range", "r_rem"}
             /\ pc[u] \in {"r_range", "r_rem"})
            => loc[t].key # loc[u].key

\* C7: when Process returns for a message, a failure of one stream has not kept any
\* other stream of the device from being processed.
C7_FailureIsolated ==
    pipe.stage = "returned" =>
        \A a, b \in 1..Len(pipe.outcome) :
            (a # b /\ pipe.outcome[a] \in {"transform failed", "encrypt failed", "write failed"})
            => pipe.outcome[b] # "none"

\* C8: a Subscribe for a key that is subscribed already is a no-op: it returns nil
\* without a request to the broker, and the manager and the broker stay as they are.
C8_SubscribeIdempotent ==
    [][\A t \in Threads :
          (/\ pc[t] = "sub_check"
           /\ pc'[t] # "sub_check"
           /\ KeySubscribed(loc[t].broker, loc[t].topic))
          => (/\ pc'[t] = "done"
              /\ loc'[t].err = "nil"
              /\ mqttVars' = mqttVars)]_vars

\* a Subscribe has returned as a no-op, and its key has exactly one subscription
C8_Witness ==
    \E t \in Threads :
        /\ pc[t] = "done" /\ loc[t].op = "Subscribe"
        /\ loc[t].err = "nil" /\ loc[t].client = 0
        /\ KeySubscribed(loc[t].broker, loc[t].topic)
        /\ Cardinality(ActiveSubscriptions(loc[t].broker, loc[t].topic)) = 1

\* C9: of two Subscribe calls for one key that run at the same time, only one sends a
\* subscribe request to the broker.
C9_OneSubscribeRequest ==
    \A t \in Threads, u \in Threads :
        (/\ t # u
         /\ loc[t].broker = loc[u].broker
         /\ loc[t].topic = loc[u].topic)
        => ~(pc[t] = "sub_record" /\ pc[u] = "sub_record")

\* C10: at most one connection is open to a broker.
C10_OneConnectionPerBroker ==
    \A broker \in Brokers : Cardinality(ConnectionsTo(broker)) <= 1

\* the positions of a MovingAverage call
MAPcs == {"ma_read", "ma_write", "r_zadd", "r_range", "r_rem", "s_eval", "ma_done"}

\* the returned calls for a key, by their place in hist
KeyCalls(k) == {i \in 1..Len(hist) : hist[i].key = k}

\* the calls for a key came one after another, each at a later second than the one
\* before, and a call still running was invoked after the others had returned
Sequential(k) ==
    /\ \A i, j \in KeyCalls(k) :
          i < j => (hist[i].res < hist[j].inv /\ hist[i].now < hist[j].now)
    /\ \A t \in Threads :
          (pc[t] \in MAPcs /\ loc[t].key = k) => \A i \in KeyCalls(k) : hist[i].res < loc[t].inv

\* the calls for the key up to the j-th of hist whose sample lies in the window of
\* the j-th, both ends included
Window(k, j) ==
    {i \in KeyCalls(k) :
        i <= j /\ hist[j].now - k[3] <= hist[i].now /\ hist[i].now <= hist[j].now}

RECURSIVE SumOfCalls(_)
SumOfCalls(S) ==
    IF S = {} THEN 0
    ELSE LET i == CHOOSE x \in S : TRUE IN hist[i].value + SumOfCalls(S \ {i})

\* C27: for calls on one key that come one after another at strictly increasing
\* timestamps, the mean a call returns is the arithmetic mean of the values of
\* exactly the samples of the key with tn - I <= ti <= tn, the new sample and a
\* sample at tn - I included (the stores that compute the mean in Go)
C27_MeanOfWindow ==
    store \in {"memory", "redis"} =>
        \A k \in MAKeys :
            Sequential(k) =>
                \A j \in KeyCalls(k) :
                    SameMean(hist[j].mean, <<SumOfCalls(Window(k, j)), Cardinality(Window(k, j))>>)

\* three calls on a key of interval 1 at the seconds 0, 1 and 2 of the in-memory
\* store: the window of the third holds the second, at its edge, and not the first
C27_Witness ==
    /\ store = "memory"
    /\ Len(hist) = 3
    /\ \A i \in 1..3 : hist[i].key[3] = 1 /\ hist[i].now = i - 1
    /\ Sequential(hist[1].key)
    /\ hist[1].value # hist[2].value
    /\ Window(hist[1].key, 3) = {2, 3}

\* the timestamps of the samples the store holds for a key
StoredTimestamps(k) ==
    IF store = "memory"
    THEN IF k \in DOMAIN entries
         THEN {entries[k][i].Timestamp : i \in 1..Len(entries[k])}
         ELSE {}
    ELSE {z.score : z \in zset[k]}

\* the call of t has done its work on the store and no other call on its key runs
\* or has overlapped a returned one
AloneOnKey(t) ==
    /\ pc[t] = "ma_done"
    /\ Sequential(loc[t].key)
    /\ \A u \in Threads \ {t} : pc[u] \in MAPcs => loc[u].key # loc[t].key

\* C28: when a MovingAverage call for a key at time now has succeeded, the store
\* holds no sample of the key older than now - interval (the in-memory store and
\* the command version of the Redis store)
C28_StoreHoldsWindow ==
    store \in {"memory", "redis"} =>
        \A t \in Threads :
            pc[t] = "ma_done" =>
                \A ts \in StoredTimestamps(loc[t].key) : loc[t].now - loc[t].key[3] <= ts

\* the same for calls on a key that do not overlap, with both ends of the window:
\* every store then holds only samples in [now - interval, now]
StoreHoldsWindowWhenSequential ==
    \A t \in Threads :
        AloneOnKey(t) =>
            \A ts \in StoredTimestamps(loc[t].key) :
                loc[t].now - loc[t].key[3] <= ts /\ ts <= loc[t].now

\* C29: a MovingAverage call at time now evicts exactly the samples older than
\* now - interval: after a call that ran alone on its key the store holds the new
\* sample and every earlier sample of the key with timestamp >= now - interval,
\* the one at now - interval included
C29_EvictsOnlyOlder ==
    \A t \in Threads :
        AloneOnKey(t) =>
            StoredTimestamps(loc[t].key) =
                {loc[t].now} \cup
                {hist[i].now : i \in {j \in KeyCalls(loc[t].key) :
                                          hist[j].now >= loc[t].now - loc[t].key[3]}}

\* the samples the store holds for a key, as (timestamp, value)
StoredSamples(k) ==
    IF store = "memory"
    THEN IF k \in DOMAIN entries
         THEN {<<entries[k][i].Timestamp, entries[k][i].Value>> : i \in 1..Len(entries[k])}
         ELSE {}
    ELSE {<<z.score, MemberValue(z.member)>> : z \in zset[k]}

\* the calls made for a key so far, returned or running, by their invocation
CallsOf(k) ==
    {[inv |-> hist[i].inv, now |-> hist[i].now, value |-> hist[i].value] : i \in KeyCalls(k)}
        \cup {[inv |-> loc[t].inv, now |-> loc[t].now, value |-> loc[t].value] :
                 t \in {u \in Threads : pc[u] \in MAPcs /\ loc[u].key = k}}

RECURSIVE SumOfValues(_)
SumOfValues(S) ==
    IF S = {} THEN 0
    ELSE LET c == CHOOSE x \in S : TRUE IN c.value + SumOfValues(S \ {c})

\* C30: a MovingAverage call touches the samples of its own key only: every sample
\* stored under a key was put there by a call for that key, and every mean
\* returned for a key is the mean of samples of calls for that key (of none of
\* them when a call on the same key has removed them all)
C30_PerKeyIsolation ==
    \A k \in MAKeys :
        /\ StoredSamples(k) \subseteq {<<c.now, c.value>> : c \in CallsOf(k)}
        /\ \A j \in KeyCalls(k) :
              \E S \in SUBSET CallsOf(k) :
                  SameMean(hist[j].mean,
                           IF S = {} THEN CalculateAverage({})
                           ELSE <<SumOfValues(S), Cardinality(S)>>)

\* calls for both keys have returned, with different values, and each key holds
\* its own sample
C30_Witness ==
    /\ \A k \in MAKeys : KeyCalls(k) # {} /\ StoredSamples(k) # {}
    /\ \E i, j \in 1..Len(hist) : hist[i].key # hist[j].key /\ hist[i].value # hist[j].value
    /\ \E j \in 1..Len(hist) : hist[j].mean[2] = 2

\* the bins are in ascending order
Ascending(bins) == \A i \in 1..Len(bins) - 1 : bins[i] < bins[i + 1]

\* the smallest index (from 1) whose boundary is above the value, else the last
UpperBin(value, bins) ==
    LET above == {i \in 1..Len(bins) : FloatLess(value, FloatFrom(bins[i]))}
    IN  IF above = {} THEN Len(bins) + 1 ELSE CHOOSE i \in above : \A j \in above : i <= j

NullReadings == {xf.raw[i].id : i \in {j \in 1..Len(xf.raw) : xf.raw[j].value = <<>>}}

\* the sensor objects of a document
SensorsOf(doc) == {doc.sensors[i] : i \in 1..Len(doc.sensors)}

\* C32: the document of a stream with a BIN operation on a sensor whose reading
\* is missing (null) carries an all-zero values vector for that sensor.
C32_NullBinsToZeros ==
    \A d \in {xf.docs[i] : i \in 1..Len(xf.docs)} :
        \A s \in SensorsOf(d.doc) :
            (s.type = "BIN" /\ s.id \in NullReadings) =>
                \A i \in 1..Len(s.values) : s.values[i] = 0

\* the sensor ids of a document, of a stream's operations and of the message, in order
DocIds(doc) == [i \in 1..Len(doc.sensors) |-> doc.sensors[i].id]
OperationIds(operations) == [i \in 1..Len(operations) |-> operations[i].SensorID]
RawIds == [i \in 1..Len(xf.raw) |-> xf.raw[i].id]

\* ids is in the order of the members of order it holds
InOrderOf(ids, order) ==
    ids = SelectSeq(order, LAMBDA id : id \in {ids[i] : i \in 1..Len(ids)})

\* C33: the sensors of the document of a stream with operations are in the order
\* the operations were declared in, and the sensors of the document of a stream
\* with no operations are in the order of the raw payload.
C33_SensorOrder ==
    \A i \in 1..Len(xf.docs) :
        LET operations == xf.streams[xf.docs[i].stream]
            ids == DocIds(xf.docs[i].doc)
        IN  IF operations # <<>> THEN InOrderOf(ids, OperationIds(operations))
            ELSE InOrderOf(ids, RawIds)

\* the document processDevice gives for the stream about to be processed when
\* it is handed the message as ParseData returned it
DocumentOfOwnStream ==
    processDevice(xf.token, ParseData(xf.raw), xf.streams[xf.idx], entries, zset, now, store).doc

\* C35: the document produced for a stream is the one its own operations give
\* on the device and the raw payload, whatever other streams the device has and
\* whatever streams were processed before it.
C35_DocumentIndependentOfOtherStreams ==
    [][(xf.stage = "streams" /\ Len(xf'.docs) = Len(xf.docs) + 1) =>
           xf'.docs[Len(xf'.docs)].doc = DocumentOfOwnStream]_vars

\* the number of samples a store holds for a key with a timestamp
SamplesAt(m, zs, key, timestamp) ==
    IF store = "memory"
    THEN IF key \in DOMAIN m
         THEN Len(SelectSeq(m[key], LAMBDA e : e.Timestamp = timestamp))
         ELSE 0
    ELSE Cardinality({z \in zs[key] : z.score = timestamp})

\* C38: when a second stream of the device declares MOVING_AVG on a sensor and
\* interval a stream processed before it for the same message declared, the
\* reading has been counted once already: the second call adds no sample to the
\* window of the key, and it gives the mean the first one gave.
C38_OneSamplePerReading ==
    [][\A j \in Len(xf.averaged) + 1..Len(xf'.averaged) :
          \A i \in 1..Len(xf.averaged) :
              (xf.stage = "streams" /\ xf.averaged[i].key = xf'.averaged[j].key) =>
                  /\ xf'.averaged[j].mean = xf.averaged[i].mean
                  /\ SamplesAt(entries', zset', xf.averaged[i].key, now)
                         = SamplesAt(entries, zset, xf.averaged[i].key, now)]_vars

\* the rules of CreateStream in their order, each with whether the request
\* breaks it: device_token, community, recipient_public_key, location,
\* longitude, latitude, then the operations as declared
RuleBroken(req, n) ==
    CASE n = 1 -> req.DeviceToken = ""
      [] n = 2 -> req.PolicyId = ""
      [] n = 3 -> req.RecipientPublicKey = ""
      [] n = 4 -> req.Location = <<>>
      [] n = 5 -> req.Location # <<>> /\ req.Location[1].Longitude \notin (-180..180) \ {0}
      [] n = 6 -> req.Location # <<>> /\ req.Location[1].Latitude \notin (-90..90) \ {0}
      [] OTHER ->
           LET op == req.Operations[n - 6]
           IN  \/ op.SensorId = 0
               \/ op.Action \notin {"SHARE", "BIN", "MOVING_AVG"}
               \/ op.Action = "BIN" /\ op.Bins = <<>>
               \/ op.Action = "MOVING_AVG" /\ op.Interval = 0

\* the argument the error of a rule names
RuleArgument(n) ==
    CASE n = 1 -> "device_token"
      [] n = 2 -> "policy_id"
      [] n = 3 -> "recipient_public_key"
      [] n = 4 -> "location"
      [] n = 5 -> "longitude"
      [] n = 6 -> "latitude"
      [] OTHER -> "operations"

RulesBroken(req) == {n \in 1..6 + Len(req.Operations) : RuleBroken(req, n)}

\* the errors an operation can be refused with
OperationErrors ==
    {InvalidArgumentError("operations", m) :
        m \in {"require a non-zero sensor id", "binning requires a non-empty list of bins",
               "moving average requires a non-zero interval", "foo"}}

\* the error is one of rule n
ErrorOfRule(err, req, n) ==
    IF n <= 6
    THEN err \in {RequiredArgumentError(RuleArgument(n)),
                  InvalidArgumentError(RuleArgument(n), "must be between -180 and 180"),
                  InvalidArgumentError(RuleArgument(n), "must be between -90 and 90")}
    ELSE /\ err \in OperationErrors
         /\ err = createOperation(req.Operations[n - 6])

\* C34: a CreateStream request that breaks several rules is answered with the
\* error of the first rule it breaks in the order device_token, community,
\* recipient_public_key, location, longitude, latitude, operations as declared;
\* a request that breaks none is not refused.
C34_FirstFailureWins ==
    \A t \in Threads :
        (pc[t] = "done" /\ loc[t].op = "CreateStream" /\ loc[t].req # <<>>) =>
            LET req == loc[t].req[1]
                broken == RulesBroken(req)
            IN  /\ broken # {}
                /\ ErrorOfRule(loc[t].err, req,
                               CHOOSE n \in broken : \A m \in broken : n <= m)

\* a request with a latitude out of range, a zero longitude and a bad operation
\* was refused for its longitude
C34_Witness ==
    \E t \in Threads :
        /\ pc[t] = "done" /\ loc[t].op = "CreateStream" /\ loc[t].req # <<>>
        /\ {5, 6, 7} \subseteq RulesBroken(loc[t].req[1])
        /\ loc[t].err = RequiredArgumentError("longitude")

\* the returned calls for a key whose sample no call for the key may have evicted:
\* it is newer than the lower end of the window of every one of them
UnevictedCalls(k) ==
    {i \in KeyCalls(k) : \A j \in KeyCalls(k) : hist[j].now - k[3] < hist[i].now}

\* C36: once every MovingAverage call has completed, the store holds the sample
\* of each call of a key that is still inside the window of every call of that
\* key, however the calls overlapped, so that a later call averages all of them
\* (the in-memory store and the command version of the Redis store).
C36_NoSampleLost ==
    (store \in {"memory", "redis"} /\ \A t \in Threads : pc[t] \notin MAPcs) =>
        \A k \in MAKeys :
            \A i \in UnevictedCalls(k) : <<hist[i].now, hist[i].value>> \in StoredSamples(k)

====
